---- MODULE Spec2Model ----
\* InjuryShield: the streaming decision-and-dispatch core of app/routes.py
\* (generate_frames and analyze_frame_for_ppe_status), the AlertManager of
\* app/alerts/alert_logic.py and the collaborators it calls; and the earlier
\* copy of generate_frames, get_video_stream and
\* analyze_frame_for_ppe_status that app/detection/detector.py still holds.
EXTENDS Integers, Sequences, FiniteSets, TLC

\* ---------------------------------------------------------------- bounds

\* Wall-clock seconds (time.time()) at which the process starts; the clock is
\* far from the epoch, so a "never sent" entry (0.0) is always out of cooldown.
StartTime == 100

\* Seconds after StartTime for which the clock is followed, per specification.
AlertHorizon == 60

SnapHorizon == 60

LogHorizon == 15

\* Snapshot captures one generate_frames run makes before its source is
\* exhausted.
MaxCaptures == 2

\* The streak of violating frames is counted up to this length.
MaxStreak == 11

\* The violations of the frames of one log window are counted up to this.
MaxWindow == 3

\* Seconds a slow save_compliance_log or send_sms call takes.
SlowCall == 60

SlowHorizon == 120

StopHorizon == 10

\* Longest detection list handed to analyze_frame_for_ppe_status.
MaxDets == 4

\* Longest detection list analysed by two calls at once.
MaxPureDets == 2

PureHorizon == 5

\* Largest snapshot threshold the settings are drawn from.
MaxThreshold == 3

ConfigHorizon == 5

\* VideoStream objects made before calls stop coming.
MaxHandles == 3

StreamsHorizon == 1

RaiseHorizon == 5

LiveHorizon == 120

ImageHorizon == 5

AnalyzeHorizon == 5

CopyHorizon == 30

\* ------------------------------------------------- configuration (config.py)

ALERT_COOLDOWN_SECONDS == 60

LOG_INTERVAL_SECONDS == 5

SAVE_VIOLATION_SNAPSHOT == TRUE

SNAPSHOT_CONSECUTIVE_VIOLATIONS == 5

\* ------------------------------------------------------------- detections

\* A class name is a sequence of tokens: 'no-helmet' is <<"no-", "helmet">>,
\* so that startswith('no-'), 'helmet' in name and replace('no-', 'missing ')
\* are computed on the text and not assumed.
Det(name, box, conf) == [class_name |-> name, box |-> box, confidence |-> conf]

PERSON == <<"person">>

HELMET == <<"helmet">>

NO_HELMET == <<"no-", "helmet">>

NO_VEST == <<"no-", "vest">>

GLOVES == <<"gloves">>

VEST == <<"vest">>

NO_GLOVES == <<"no-", "gloves">>

\* a class of the detector that is neither a person nor PPE
BOOTS == <<"boots">>

\* Detection lists the detector returns for a frame.
F_EMPTY == <<>>

F_COMPLIANT == << Det(PERSON, 1, 9), Det(HELMET, 2, 8) >>

F_NO_HELMET == << Det(NO_HELMET, 1, 9) >>

F_TWO_NO_HELMET == << Det(PERSON, 1, 9), Det(NO_HELMET, 2, 8), Det(NO_HELMET, 3, 7) >>

F_VEST_AND_HELMET == << Det(NO_VEST, 1, 6), Det(NO_HELMET, 2, 8) >>

F_HELMET_VEST_HELMET == << Det(NO_HELMET, 1, 9), Det(NO_VEST, 2, 6), Det(NO_HELMET, 3, 8) >>

F_WORN == << Det(PERSON, 1, 9), Det(PERSON, 4, 9), Det(HELMET, 2, 8), Det(GLOVES, 3, 5) >>

\* str.startswith
StartsWith(name, tok) == Len(name) > 0 /\ name[1] = tok

\* substring test `tok in name`
Contains(name, tok) == \E i \in DOMAIN name : name[i] = tok

\* str.replace(old, new): every occurrence of the token is replaced
Replace(name, old, new) == [i \in DOMAIN name |-> IF name[i] = old THEN new ELSE name[i]]

IsPerson(d) == d.class_name = PERSON

IsWornPPE(d) == d.class_name \in {<<"helmet">>, <<"vest">>, <<"gloves">>}

IsViolation(d) == StartsWith(d.class_name, "no-")

\* (mutant) a helmet is not counted as worn PPE
PPEWornCount_NoHelmet(dets) ==
    Cardinality({i \in DOMAIN dets : dets[i].class_name \in {<<"vest">>, <<"gloves">>}})

\* the counters of the first loop and violations_count of the second
PersonCount(dets) == Cardinality({i \in DOMAIN dets : IsPerson(dets[i])})

PPEWornCount(dets) == Cardinality({i \in DOMAIN dets : IsWornPPE(dets[i])})

ViolationsCount(dets) == Cardinality({i \in DOMAIN dets : IsViolation(dets[i])})

\* (mutant) one severity for every violation
Severity_Flat(name) == 2

\* (mutant) severity 1 for a violation without 'helmet' in its name
Severity_DefaultOne(name) == IF Contains(name, "helmet") THEN 3 ELSE 1

Severity(name) == IF Contains(name, "helmet") THEN 3 ELSE 2

ViolationDetail(d) ==
    [violation_type |-> d.class_name,
     location_box   |-> d.box,
     confidence     |-> d.confidence,
     severity       |-> Severity(d.class_name)]

RECURSIVE ViolationDetails(_)
ViolationDetails(dets) ==
    IF dets = <<>> THEN <<>>
    ELSE (IF IsViolation(Head(dets)) THEN <<ViolationDetail(Head(dets))>> ELSE <<>>)
         \o ViolationDetails(Tail(dets))

\* str(n) of a natural number, digit by digit
RECURSIVE Str(_)
Str(n) ==
    LET digit == <<"0", "1", "2", "3", "4", "5", "6", "7", "8", "9">>[(n % 10) + 1]
    IN IF n < 10 THEN <<digit>> ELSE Str(n \div 10) \o <<digit>>

\* (mutant) the last elif is missing: "Compliant" stays
StatusMessage_NoLastBranch(person_count, violations_count) ==
    IF violations_count > 0 THEN Str(violations_count) \o <<" Violation(s) Detected">>
    ELSE IF person_count > 0 THEN <<"Compliant (Persons detected, no violations)">>
    ELSE <<"Compliant">>

\* (mutant) the persons are tested before the violations
StatusMessage_PersonsFirst(person_count, violations_count) ==
    IF person_count = 0 THEN <<"No persons detected">>
    ELSE IF violations_count > 0 THEN Str(violations_count) \o <<" Violation(s) Detected">>
    ELSE <<"Compliant (Persons detected, no violations)">>

StatusMessage(person_count, violations_count) ==
    IF violations_count > 0 THEN Str(violations_count) \o <<" Violation(s) Detected">>
    ELSE IF person_count > 0 THEN <<"Compliant (Persons detected, no violations)">>
    ELSE <<"No persons detected">>

\* analyze_frame_for_ppe_status
Analyze(dets) ==
    LET pcount == PersonCount(dets)
        vcount == ViolationsCount(dets)
    IN [person_count     |-> pcount,
        ppe_worn_count   |-> PPEWornCount(dets),
        violations_count |-> vcount,
        status_message   |-> StatusMessage(pcount, vcount),
        violation_details |-> ViolationDetails(dets)]

\* the copy of analyze_frame_for_ppe_status in app/detection/detector.py:
\* one severity for every violation, and another text for a compliant frame
DetectorSeverity(name) == 1

RECURSIVE DetectorViolationDetails(_)
DetectorViolationDetails(dets) ==
    IF dets = <<>> THEN <<>>
    ELSE (IF IsViolation(Head(dets))
          THEN <<[violation_type |-> Head(dets).class_name,
                  location_box   |-> Head(dets).box,
                  confidence     |-> Head(dets).confidence,
                  severity       |-> DetectorSeverity(Head(dets).class_name)]>>
          ELSE <<>>)
         \o DetectorViolationDetails(Tail(dets))

DetectorStatusMessage(person_count, violations_count) ==
    IF violations_count > 0 THEN Str(violations_count) \o <<" Violation(s) Detected">>
    ELSE IF person_count > 0 THEN <<"Compliant (All persons wearing detected PPE)">>
    ELSE <<"No persons detected">>

DetectorAnalyze(dets) ==
    LET pcount == PersonCount(dets)
        vcount == ViolationsCount(dets)
    IN [person_count     |-> pcount,
        ppe_worn_count   |-> PPEWornCount(dets),
        violations_count |-> vcount,
        status_message   |-> DetectorStatusMessage(pcount, vcount),
        violation_details |-> DetectorViolationDetails(dets)]

\* ------------------------------------------------------------ alert text

RECURSIVE DistinctTypes(_, _)
DistinctTypes(details, seen) ==
    IF details = <<>> THEN <<>>
    ELSE LET t == Head(details).violation_type
         IN (IF t \in seen THEN <<>> ELSE <<t>>)
            \o DistinctTypes(Tail(details), seen \cup {t})

\* violation_summary[t]: the details of type t
CountType(details, t) ==
    Cardinality({i \in DOMAIN details : details[i].violation_type = t})

\* AlertManager.format_alert_message: the lines of the message, each a
\* sequence of tokens
FormatAlertMessage(details, frame_time) ==
    IF details = <<>> THEN << <<"No violations detected.">> >>
    ELSE LET types == DistinctTypes(details, {})
             Bullet(t) == <<"- ">> \o Str(CountType(details, t)) \o <<"x ">>
                          \o Replace(t, "no-", "missing ")
         IN << <<"InjuryShield ALERT at ">> \o Str(frame_time) \o <<":">> >>
            \o [i \in DOMAIN types |-> Bullet(types[i])]
            \o << <<"Immediate action required.">> >>

\* ------------------------------------------------------------------ state

Pipelines == {1, 2}

VARIABLES
    config,           \* app_config: the snapshot settings
    now,              \* the wall clock, time.time()
    stream,           \* per VideoStream object: what its capture has yet to deliver
    source,           \* per call: the argument of generate_frames
    module,           \* per call: the module whose generate_frames is called
    cached,           \* per module: its _current_video_stream and _stream_source
    handle,           \* per call: local stream, the VideoStream it reads from
    opening,          \* per call: the VideoStream whose open() the call is inside
    releasing,        \* per call: the VideoStream whose release() the call is about to run
    unloaded,         \* the VideoStream objects with is_image set and no current_image bound
    open_handles,     \* the VideoStream objects whose capture is open or image loaded
    nhandles,         \* VideoStream objects created so far
    counter,          \* routes._consecutive_violation_frames (module global)
    last_alert_time,  \* alert_manager.last_alert_time (defaultdict(float))
    pc,               \* per generate_frames call: where it stands
    detections,       \* per call: the detector's result for the current frame
    metrics,          \* per call: what analyze_frame_for_ppe_status returned for it
    last_log_time,    \* per call: local last_log_time
    snapshot_path,    \* per call: local snapshot_path (Unbound until assigned)
    idx,              \* per call: position of `detail` in violation_details
    stamp,            \* per call: the time.time() record_alert_sent is about to store
    ncap,             \* per call: save_frame_snapshot calls made by this run
    before,           \* per call: the counter as this frame's snapshot logic found it
    captured,         \* per call: save_frame_snapshot was called for this frame
    streak,           \* violating frames in a row since the last capture request
    seen,             \* per call: the streak counted with the current frame
    log_call,         \* per call: the save_compliance_log call of this frame
    prev_log,         \* per call: the run's save_compliance_log call before it
    window_violations,\* per call: violations of the frames seen since that call
    window_captures,  \* per call: results of the captures requested since that call
    event_ids,        \* per call: what the save_violation_event calls of this frame returned
    sent,             \* per violation type: the last send_sms call for it
    nsent,            \* per call: send_sms calls made by this run
    last_msg,         \* per call: text of the send_sms call of this frame
    sent_now          \* per call: the types send_sms was called for in this frame

vars == <<config, now, stream, source, module, cached, handle, opening, releasing, unloaded,
          open_handles, nhandles, counter, last_alert_time, pc, detections, metrics, last_log_time,
          snapshot_path, idx, stamp, ncap, before, captured, streak, seen, log_call,
          prev_log, window_violations, window_captures, event_ids, sent, nsent,
          last_msg, sent_now>>

handles == <<source, module, cached, handle, opening, releasing, unloaded, open_handles, nhandles>>

shared == <<counter, last_alert_time>>

locals == <<detections, metrics, last_log_time, snapshot_path, idx, stamp>>

snap_obs == <<ncap, before, captured, streak, seen>>

flush_obs == <<log_call, prev_log, window_violations, window_captures, event_ids>>

send_obs == <<sent, nsent, last_msg, sent_now>>

\* a local name that no assignment has bound yet
Unbound == <<"unbound">>

\* Python's None where a path is expected
NoPath == <<"None">>

\* no save_compliance_log call
NoCall ==
    [calls |-> 0, at |-> 0, person_count |-> 0, ppe_worn_count |-> 0,
     violations_count |-> 0, status |-> <<>>, frame_snapshot_path |-> NoPath,
     log_id |-> "None", events |-> <<>>]

\* no save_violation_event call
NoEvents == "no call"

\* a camera delivers frames as long as it is read
Camera == [kind |-> "camera", frames |-> <<>>]

\* a second camera
Camera1 == [kind |-> "camera 1", frames |-> <<>>]

\* a video file delivers its frames and then none
VideoFile(frames) == [kind |-> "file", frames |-> frames]

\* an image file, loaded by open(): the detector returns f for every copy
Image(f) == [kind |-> "image", frames |-> <<f>>]

\* person_count, ppe_worn_count, violations_count, status_message and
\* violation_details before the first frame of a call is analysed
NoMetrics ==
    [person_count |-> 0, ppe_worn_count |-> 0, violations_count |-> 0,
     status_message |-> <<>>, violation_details |-> <<>>]

\* the locals bound by the call of analyze_frame_for_ppe_status
Metrics(p) == metrics[p]

Detail(p) == Metrics(p).violation_details[idx[p]]

\* defaultdict(float): a missing key reads as 0.0
LastAlert(t) == IF t \in DOMAIN last_alert_time THEN last_alert_time[t] ELSE 0

Put(f, k, v) == [x \in DOMAIN f \cup {k} |-> IF x = k THEN v ELSE f[x]]

Min(a, b) == IF a < b THEN a ELSE b

\* no VideoStream object: _current_video_stream is None, _stream_source is None
NoHandle == 0

NoSource == [kind |-> "None", frames |-> <<>>]

\* the two modules that define generate_frames and a stream cache
ROUTES == "app.routes"

DETECTOR == "app.detection.detector"

\* _current_video_stream is None, _stream_source is None
NoCache == [handle |-> NoHandle, source |-> NoSource]

\* the module globals after import, and the calls of generate_frames that
\* are going to be made: `running`, with the sources `src`, of the modules
\* `mods`
InitModules(running, src, settings, mods) ==
    /\ config = settings
    /\ now = StartTime
    /\ stream = <<>>
    /\ source = src
    /\ module = mods
    /\ cached = [m \in {ROUTES, DETECTOR} |-> NoCache]
    /\ handle = [p \in Pipelines |-> NoHandle]
    /\ opening = [p \in Pipelines |-> NoHandle]
    /\ releasing = [p \in Pipelines |-> NoHandle]
    /\ unloaded = {}
    /\ open_handles = {}
    /\ nhandles = 0
    /\ counter = 0
    /\ last_alert_time = <<>>
    /\ pc = [p \in Pipelines |-> IF p \in running THEN "start" ELSE "off"]
    /\ detections = [p \in Pipelines |-> <<>>]
    /\ metrics = [p \in Pipelines |-> NoMetrics]
    /\ last_log_time = [p \in Pipelines |-> 0]
    /\ snapshot_path = [p \in Pipelines |-> Unbound]
    /\ idx = [p \in Pipelines |-> 1]
    /\ stamp = [p \in Pipelines |-> 0]
    /\ ncap = [p \in Pipelines |-> 0]
    /\ before = [p \in Pipelines |-> 0]
    /\ captured = [p \in Pipelines |-> FALSE]
    /\ streak = 0
    /\ seen = [p \in Pipelines |-> 0]
    /\ log_call = [p \in Pipelines |-> NoCall]
    /\ prev_log = [p \in Pipelines |-> NoCall]
    /\ window_violations = [p \in Pipelines |-> 0]
    /\ window_captures = [p \in Pipelines |-> <<>>]
    /\ event_ids = [p \in Pipelines |-> NoEvents]
    /\ sent = <<>>
    /\ nsent = [p \in Pipelines |-> 0]
    /\ last_msg = [p \in Pipelines |-> <<>>]
    /\ sent_now = [p \in Pipelines |-> <<>>]

\* the same, every call being one of the generate_frames of app/routes.py,
\* the one video_feed calls
InitConfigured(running, src, settings) ==
    InitModules(running, src, settings, [p \in Pipelines |-> ROUTES])

\* the snapshot settings of config.py
DefaultConfig ==
    [SAVE_VIOLATION_SNAPSHOT |-> SAVE_VIOLATION_SNAPSHOT,
     SNAPSHOT_CONSECUTIVE_VIOLATIONS |-> SNAPSHOT_CONSECUTIVE_VIOLATIONS]

InitSources(running, src) == InitConfigured(running, src, DefaultConfig)

InitWith(running, src) == InitSources(running, [p \in Pipelines |-> src])

\* one request for the video feed of a camera
Init == InitWith({1}, Camera)

\* ---------------------------------------------------------------- actions

\* The wall clock advances while a run waits for its next frame.
Tick(d, horizon) ==
    /\ \E p \in Pipelines : pc[p] = "read"
    /\ now + d <= StartTime + horizon
    /\ now' = now + d
    /\ UNCHANGED <<config, handles, stream, shared, pc, locals, snap_obs, flush_obs, send_obs>>

\* the stream cache of the module whose generate_frames run p executes
Cache(p) == cached[module[p]]

\* (mutant) the cached VideoStream is not released
Released_Leak(h) == open_handles

\* the streams that deliver after release() of the VideoStream h: its capture
\* is released; release() of a VideoStream that has no capture, because none
\* was made yet or because it holds an image, changes nothing
Released(h) ==
    IF h \in DOMAIN stream /\ stream[h].kind = "image" THEN open_handles
    ELSE open_handles \ {h}

\* (mutant) the test of get_video_stream never finds the cached stream
Hit_Never(p) == FALSE

\* the test of get_video_stream finds a stream cached for the source
Hit(p) == Cache(p).handle # NoHandle /\ Cache(p).source = source[p]

\* get_video_stream, nothing being cached for the source: the test fails,
\* and release() of the VideoStream that is cached, if there is one, is
\* called; other threads run before the body of release() does
CacheMiss(p) ==
    /\ pc[p] = "start"
    /\ ~Hit(p)
    /\ releasing' = [releasing EXCEPT ![p] = Cache(p).handle]
    /\ pc' = [pc EXCEPT ![p] = "release"]
    /\ UNCHANGED <<config, now, stream, source, module, cached, handle, opening, unloaded,
                   open_handles, nhandles, shared, locals, snap_obs, flush_obs, send_obs>>

\* release() of the VideoStream that was cached at the test runs: its
\* capture, if it has one, is released
ReleaseCached(p) ==
    /\ pc[p] = "release"
    /\ open_handles' = Released(releasing[p])
    /\ releasing' = [releasing EXCEPT ![p] = NoHandle]
    /\ pc' = [pc EXCEPT ![p] = "construct"]
    /\ UNCHANGED <<config, now, stream, source, module, cached, handle, opening, unloaded,
                   nhandles, shared, locals, snap_obs, flush_obs, send_obs>>

\* a new VideoStream is made and bound to _current_video_stream, and its
\* open() is called; _stream_source is still what it was
Construct(p) ==
    /\ pc[p] = "construct"
    /\ nhandles' = nhandles + 1
    /\ stream' = Append(stream, source[p])
    /\ cached' = [cached EXCEPT ![module[p]].handle = nhandles + 1]
    /\ opening' = [opening EXCEPT ![p] = nhandles + 1]
    /\ pc' = [pc EXCEPT ![p] = "open"]
    /\ UNCHANGED <<config, now, source, module, handle, releasing, unloaded, open_handles,
                   shared, locals, snap_obs, flush_obs, send_obs>>

\* open() is entered, logs, sets is_image for an image file and calls
\* cv2.imread or cv2.VideoCapture
OpenBegins(p) ==
    /\ pc[p] = "open"
    /\ unloaded' = IF stream[opening[p]].kind = "image"
                   THEN unloaded \cup {opening[p]} ELSE unloaded
    /\ pc' = [pc EXCEPT ![p] = "opening"]
    /\ UNCHANGED <<config, now, stream, source, module, cached, handle, opening, releasing,
                   open_handles, nhandles, shared, locals, snap_obs, flush_obs, send_obs>>

\* cv2.VideoCapture or cv2.imread returns and its result is bound: the
\* capture is open, or the image loaded, if `ok`; if not, the capture is
\* closed, or current_image is None; _stream_source is still what it was
CaptureMade(p, ok) ==
    /\ pc[p] = "opening"
    /\ open_handles' = IF ok THEN open_handles \cup {opening[p]} ELSE open_handles
    /\ unloaded' = unloaded \ {opening[p]}
    /\ pc' = [pc EXCEPT ![p] = "made"]
    /\ UNCHANGED <<config, now, stream, source, module, cached, handle, opening, releasing,
                   nhandles, shared, locals, snap_obs, flush_obs, send_obs>>

\* cv2.imread raises: except Exception, open() logs and returns False;
\* current_image has not been bound
LoadRaises(p) ==
    /\ pc[p] = "opening"
    /\ stream[opening[p]].kind = "image"
    /\ pc' = [pc EXCEPT ![p] = "failed"]
    /\ UNCHANGED <<config, handles, now, stream, shared, locals, snap_obs, flush_obs, send_obs>>

\* open() tests cap.isOpened(), or the image, as it is now, logs, and
\* returns True or False
IsOpened(p) ==
    /\ pc[p] = "made"
    /\ pc' = [pc EXCEPT ![p] = IF opening[p] \in open_handles THEN "opened" ELSE "failed"]
    /\ UNCHANGED <<config, handles, now, stream, shared, locals, snap_obs, flush_obs, send_obs>>

\* open() has returned True: _stream_source is set
Opened(p) ==
    /\ pc[p] = "opened"
    /\ cached' = [cached EXCEPT ![module[p]].source = source[p]]
    /\ opening' = [opening EXCEPT ![p] = NoHandle]
    /\ pc' = [pc EXCEPT ![p] = "return"]
    /\ UNCHANGED <<config, now, stream, source, module, handle, releasing, unloaded,
                   open_handles, nhandles, shared, locals, snap_obs, flush_obs, send_obs>>

\* open() has returned False: the cache is cleared, get_video_stream returns
\* None and generate_frames yields a blank frame
OpenFails(p) ==
    /\ pc[p] = "failed"
    /\ cached' = [cached EXCEPT ![module[p]] = NoCache]
    /\ opening' = [opening EXCEPT ![p] = NoHandle]
    /\ handle' = [handle EXCEPT ![p] = NoHandle]
    /\ pc' = [pc EXCEPT ![p] = "blank"]
    /\ UNCHANGED <<config, now, stream, source, module, releasing, unloaded, open_handles,
                   nhandles, shared, locals, snap_obs, flush_obs, send_obs>>

\* get_video_stream, the test having found the cached stream or a stream
\* having been opened, returns _current_video_stream, as it is bound now, to
\* generate_frames, which goes on to a blank frame if what is returned is
\* None
Start(p) ==
    /\ pc[p] = "return" \/ (pc[p] = "start" /\ Hit(p))
    /\ handle' = [handle EXCEPT ![p] = Cache(p).handle]
    /\ pc' = [pc EXCEPT ![p] = IF Cache(p).handle = NoHandle THEN "blank" ELSE "enter"]
    /\ UNCHANGED <<config, now, stream, source, module, cached, opening, releasing, unloaded,
                   open_handles, nhandles, shared, locals, snap_obs, flush_obs, send_obs>>

\* generate_frames, a stream and a detector being there, has asked the
\* stream for its frame rate and reads the clock: last_log_time is bound,
\* and the loop is entered
EnterLoop(p) ==
    /\ pc[p] = "enter"
    /\ last_log_time' = [last_log_time EXCEPT ![p] = now]
    /\ pc' = [pc EXCEPT ![p] = "read"]
    /\ UNCHANGED <<config, handles, now, stream, shared, detections, metrics, snapshot_path,
                   idx, stamp, snap_obs, flush_obs, send_obs>>

\* (mutant) the open is tried again after the blank frame
AfterBlank_Retry(p) ==
    /\ pc[p] = "blank"
    /\ pc' = [pc EXCEPT ![p] = "start"]
    /\ UNCHANGED <<config, handles, now, stream, shared, locals, snap_obs, flush_obs, send_obs>>

\* the generator is resumed, or closed, after the blank frame: return
AfterBlank(p) ==
    /\ pc[p] = "blank"
    /\ pc' = [pc EXCEPT ![p] = "done"]
    /\ UNCHANGED <<config, handles, now, stream, shared, locals, snap_obs, flush_obs, send_obs>>

\* generate_frames when global_detector is None: the stream is got, and the
\* generator returns without a frame; the copy in app/detection/detector.py
\* releases the stream first. global_detector is read at each call, and what
\* it is bound to at a call is left open
StartNoDetector(p) ==
    /\ pc[p] = "return" \/ (pc[p] = "start" /\ Hit(p))
    /\ Cache(p).handle # NoHandle
    /\ handle' = [handle EXCEPT ![p] = Cache(p).handle]
    /\ open_handles' = IF module[p] = DETECTOR THEN Released(Cache(p).handle)
                       ELSE open_handles
    /\ pc' = [pc EXCEPT ![p] = "done"]
    /\ UNCHANGED <<config, now, stream, source, module, cached, opening, releasing, unloaded,
                   nhandles, shared, locals, snap_obs, flush_obs, send_obs>>

\* a run has ended and generate_frames(src) of the same module is called
\* again: a new generator with new locals; the module globals are as the runs
\* before left them
NewCall(p, src) ==
    /\ pc[p] \in {"done", "aborted", "closed"}
    /\ nhandles < MaxHandles
    /\ source' = [source EXCEPT ![p] = src]
    /\ handle' = [handle EXCEPT ![p] = NoHandle]
    /\ pc' = [pc EXCEPT ![p] = "start"]
    /\ detections' = [detections EXCEPT ![p] = <<>>]
    /\ metrics' = [metrics EXCEPT ![p] = NoMetrics]
    /\ last_log_time' = [last_log_time EXCEPT ![p] = 0]
    /\ snapshot_path' = [snapshot_path EXCEPT ![p] = Unbound]
    /\ idx' = [idx EXCEPT ![p] = 1]
    /\ stamp' = [stamp EXCEPT ![p] = 0]
    /\ ncap' = [ncap EXCEPT ![p] = 0]
    /\ before' = [before EXCEPT ![p] = 0]
    /\ captured' = [captured EXCEPT ![p] = FALSE]
    /\ seen' = [seen EXCEPT ![p] = 0]
    /\ log_call' = [log_call EXCEPT ![p] = NoCall]
    /\ prev_log' = [prev_log EXCEPT ![p] = NoCall]
    /\ window_violations' = [window_violations EXCEPT ![p] = 0]
    /\ window_captures' = [window_captures EXCEPT ![p] = <<>>]
    /\ event_ids' = [event_ids EXCEPT ![p] = NoEvents]
    /\ nsent' = [nsent EXCEPT ![p] = 0]
    /\ last_msg' = [last_msg EXCEPT ![p] = <<>>]
    /\ sent_now' = [sent_now EXCEPT ![p] = <<>>]
    /\ UNCHANGED <<config, now, stream, module, cached, opening, releasing, unloaded,
                   open_handles, nhandles, shared, streak, sent>>

\* what the VideoStream run p reads from has yet to deliver
StreamOf(p) == IF handle[p] = NoHandle THEN NoSource ELSE stream[handle[p]]

\* what stream.read_frame() can return next, as detection lists
Readable(p, camera_frames) ==
    IF StreamOf(p).kind \in {"file", "image"}
    THEN IF StreamOf(p).frames = <<>> THEN {} ELSE {Head(StreamOf(p).frames)}
    ELSE camera_frames

\* the streams after run p has read a frame: a video file has moved on
Consumed(p) ==
    IF StreamOf(p).kind = "file"
    THEN [stream EXCEPT ![handle[p]].frames = Tail(@)]
    ELSE stream

\* (mutant) the analysis counts the persons on from the module's streak counter
AnalyzeFrame_Remembering(p, f) ==
    [Analyze(f) EXCEPT !.person_count = @ + counter]

\* the call of analyze_frame_for_ppe_status by run p, on the detections f:
\* the function of the run's module; it reads its argument and nothing else
AnalyzeFrame(p, f) == IF module[p] = DETECTOR THEN DetectorAnalyze(f) ELSE Analyze(f)

\* after the analysis: the snapshot logic; the copy in
\* app/detection/detector.py has none and goes on to its logging block
AfterAnalysis(p) == IF module[p] = DETECTOR THEN "log" ELSE "snapshot"

\* stream.read_frame() returns a frame; the detector returns f for it
ReadFrame(p, f) ==
    /\ pc[p] = "read"
    /\ handle[p] \in open_handles
    /\ ncap[p] < MaxCaptures
    /\ stream' = Consumed(p)
    /\ detections' = [detections EXCEPT ![p] = f]
    /\ pc' = [pc EXCEPT ![p] = "analyze"]
    /\ UNCHANGED <<config, handles, now, shared, metrics, last_log_time, snapshot_path, idx,
                   stamp, snap_obs, flush_obs, send_obs>>

\* the call of analyze_frame_for_ppe_status on the detections of the frame
\* returns, and its five results are bound
Analysis(p) ==
    /\ pc[p] = "analyze"
    /\ metrics' = [metrics EXCEPT ![p] = AnalyzeFrame(p, detections[p])]
    /\ pc' = [pc EXCEPT ![p] = AfterAnalysis(p)]
    /\ UNCHANGED <<config, handles, now, stream, shared, detections, last_log_time,
                   snapshot_path, idx, stamp, snap_obs, flush_obs, send_obs>>

\* (mutant) no break: the missing frame is processed like a frame
AfterNoFrame_FallThrough(p) == "analyze"

\* where the run goes when read_frame returned None: break, finally, return
AfterNoFrame(p) == "done"

\* the stream run p reads from has is_image set and no current_image: open()
\* is inside cv2.imread, or cv2.imread raised
ImageUnbound(p) == handle[p] \in unloaded

\* read_frame may return None: the capture is closed or not open yet, a video
\* file is at its end, a camera read failed, cv2.imread returned None; an
\* image loaded by open() is returned at every call, as a copy
NoFrame(p) ==
    /\ (handle[p] \in open_handles /\ StreamOf(p).kind = "file") => StreamOf(p).frames = <<>>
    /\ ~(handle[p] \in open_handles /\ StreamOf(p).kind = "image")
    /\ ~ImageUnbound(p)

\* stream.read_frame() returns None: break
EndOfStream(p) ==
    /\ pc[p] = "read"
    /\ NoFrame(p)
    /\ pc' = [pc EXCEPT ![p] = AfterNoFrame(p)]
    /\ UNCHANGED <<config, handles, now, stream, shared, locals, snap_obs, flush_obs, send_obs>>

\* (mutant) no except clause: the exception leaves the generator
AfterException_Propagates(p) == "raised"

\* where the run goes when an Exception is raised in the loop: except
\* Exception logs it, the finally clause passes, the generator returns
AfterException(p) == "aborted"

\* stream.read_frame() returns a frame and global_detector.detect raises:
\* except Exception, finally, and the generator ends
DetectRaises(p) ==
    /\ pc[p] = "read"
    /\ handle[p] \in open_handles
    /\ ncap[p] < MaxCaptures
    /\ stream' = Consumed(p)
    /\ pc' = [pc EXCEPT ![p] = AfterException(p)]
    /\ UNCHANGED <<config, handles, now, shared, locals, snap_obs, flush_obs, send_obs>>

\* stream.read_frame() of a VideoStream with is_image set and no
\* current_image raises AttributeError: except Exception, finally, and the
\* generator ends
ReadRaises(p) ==
    /\ pc[p] = "read"
    /\ ImageUnbound(p)
    /\ pc' = [pc EXCEPT ![p] = AfterException(p)]
    /\ UNCHANGED <<config, handles, now, stream, shared, locals, snap_obs, flush_obs, send_obs>>

\* save_frame_snapshot: a path, or None on failure
SaveFrameSnapshot(p, saved) ==
    IF saved THEN <<"snapshots", ncap[p] + 1>> ELSE NoPath

\* (mutant) the threshold test with > for >=
ThresholdReached_Strict(c) == c > config.SNAPSHOT_CONSECUTIVE_VIOLATIONS

\* the threshold test of the snapshot logic, on the incremented counter
ThresholdReached(c) == c >= config.SNAPSHOT_CONSECUTIVE_VIOLATIONS

\* (mutant) the counter is not reset after a capture
CounterAfterCapture_Keep(c, path) == c

\* (mutant) the counter is reset only after a capture that succeeded
CounterAfterCapture_OnSuccess(c, path) == IF path = NoPath THEN c ELSE 0

\* the counter after a snapshot was requested and returned `path`
CounterAfterCapture(c, path) == 0

\* (mutant) the counter is kept over a frame without violation
CounterNoViolation_Keep(c) == c

\* the counter after a frame without violation
CounterNoViolation(c) == 0

\* (mutant) a path already bound is kept: the first capture wins
SnapshotPathAfter_KeepFirst(p, path) ==
    IF snapshot_path[p] \in {Unbound, NoPath} THEN path ELSE snapshot_path[p]

\* the local snapshot_path after save_frame_snapshot returned `path`
SnapshotPathAfter(p, path) == path

\* the snapshot logic of one frame up to the call of save_frame_snapshot:
\* the counter is incremented and tested, or reset
SnapshotLogic(p) ==
    /\ pc[p] = "snapshot"
    /\ before' = [before EXCEPT ![p] = counter]
    /\ LET violating == Metrics(p).violations_count > 0
           capturing == /\ config.SAVE_VIOLATION_SNAPSHOT /\ violating
                        /\ ThresholdReached(counter + 1)
           s == IF violating THEN Min(streak + 1, MaxStreak) ELSE 0
       IN /\ seen' = [seen EXCEPT ![p] = IF capturing THEN @ ELSE s]
          /\ streak' = IF capturing THEN streak ELSE s
          /\ counter' = IF config.SAVE_VIOLATION_SNAPSHOT /\ violating
                        THEN counter + 1 ELSE CounterNoViolation(counter)
          /\ pc' = [pc EXCEPT ![p] = IF capturing THEN "capture" ELSE "log"]
    /\ UNCHANGED <<config, handles, now, stream, last_alert_time, locals, ncap, captured,
                   flush_obs, send_obs>>

\* save_frame_snapshot returns, a path if `saved`, and the counter is reset
Capture(p, saved) ==
    /\ pc[p] = "capture"
    /\ snapshot_path' = [snapshot_path EXCEPT ![p] =
           SnapshotPathAfter(p, SaveFrameSnapshot(p, saved))]
    /\ window_captures' = [window_captures EXCEPT ![p] =
           Append(@, SaveFrameSnapshot(p, saved))]
    /\ counter' = CounterAfterCapture(counter, SaveFrameSnapshot(p, saved))
    /\ captured' = [captured EXCEPT ![p] = TRUE]
    /\ ncap' = [ncap EXCEPT ![p] = @ + 1]
    /\ seen' = [seen EXCEPT ![p] = Min(streak + 1, MaxStreak)]
    /\ streak' = 0
    /\ pc' = [pc EXCEPT ![p] = "log"]
    /\ UNCHANGED <<config, handles, now, stream, last_alert_time, detections, metrics,
                   last_log_time, idx, stamp, before, log_call, prev_log, window_violations,
                   event_ids, send_obs>>

\* a synchronous call returns `took` seconds after it was made
CallTakes(took) ==
    /\ took > 0 => now + took <= StartTime + SlowHorizon
    /\ now' = now + took

\* (mutant) the interval test with > for >=
IntervalElapsed_Strict(current_time, last) == current_time - last > LOG_INTERVAL_SECONDS

\* (mutant) the interval test passes as soon as no time has gone backwards
IntervalElapsed_NonNegative(current_time, last) == current_time - last >= 0

\* the interval test of the logging block
IntervalElapsed(current_time, last) == current_time - last >= LOG_INTERVAL_SECONDS

\* (mutant) only the first violation of the frame is written
ViolationEvents_FirstOnly(p, log_id) ==
    IF log_id # "None" /\ Metrics(p).violations_count > 0
    THEN <<Metrics(p).violation_details[1]>> ELSE <<>>

\* (mutant) the violation events are written whatever save_compliance_log
\* returned
ViolationEvents_Orphans(p, log_id) ==
    [k \in DOMAIN Metrics(p).violation_details |->
        [f \in DOMAIN Metrics(p).violation_details[k] \cup {"log_id"} |->
            IF f = "log_id" THEN log_id ELSE Metrics(p).violation_details[k][f]]]

\* the save_violation_event calls that follow a save_compliance_log call
\* which returned log_id: one per detail of the current frame, with the
\* fields of the detail and log_id
ViolationEvents(p, log_id) ==
    IF log_id # "None" /\ Metrics(p).violations_count > 0
    THEN [k \in DOMAIN Metrics(p).violation_details |->
             [f \in DOMAIN Metrics(p).violation_details[k] \cup {"log_id"} |->
                 IF f = "log_id" THEN log_id ELSE Metrics(p).violation_details[k][f]]]
    ELSE <<>>

\* (mutant) the violations of the interval are summed
SaveComplianceLog_Sum(p, log_id) ==
    [calls            |-> log_call[p].calls + 1,
     at               |-> now,
     person_count     |-> Metrics(p).person_count,
     ppe_worn_count   |-> Metrics(p).ppe_worn_count,
     violations_count |-> window_violations[p] + Metrics(p).violations_count,
     status           |-> Metrics(p).status_message,
     frame_snapshot_path |->
         IF snapshot_path[p] \notin {Unbound, NoPath} THEN snapshot_path[p] ELSE NoPath,
     log_id           |-> log_id,
     events           |-> ViolationEvents(p, log_id)]

\* DBManager.save_compliance_log and the save_violation_event calls after it
SaveComplianceLog(p, log_id) ==
    [calls            |-> log_call[p].calls + 1,
     at               |-> now,
     person_count     |-> Metrics(p).person_count,
     ppe_worn_count   |-> Metrics(p).ppe_worn_count,
     violations_count |-> Metrics(p).violations_count,
     status           |-> Metrics(p).status_message,
     frame_snapshot_path |->
         IF snapshot_path[p] \notin {Unbound, NoPath} THEN snapshot_path[p] ELSE NoPath,
     log_id           |-> log_id,
     events           |-> ViolationEvents(p, log_id)]

\* (mutant) the window start is kept when the call failed
LastLogTimeAfter_OnSuccess(p, log_id) ==
    IF log_id = "None" THEN last_log_time[p] ELSE now

\* last_log_time after a save_compliance_log call that returned log_id
LastLogTimeAfter(p, log_id) == now

\* (mutant) the frame is yielded before its alerts
AfterLogging_YieldFirst(p) == "encode"

\* after the logging block: the alert loop of a violating frame, else the
\* JPEG encoding; the copy in app/detection/detector.py has no alert loop
AfterLogging(p) ==
    IF module[p] # DETECTOR /\ Metrics(p).violations_count > 0 THEN "check" ELSE "encode"

\* the periodic compliance log of one frame, the application context being
\* entered; `log_id` is what save_compliance_log returns and `event_id` what
\* the save_violation_event calls return (an id, or None on failure), each
\* read only when the call is made; the calls return after `took` seconds
Logging(p, log_id, event_id, took) ==
    /\ pc[p] = "log"
    /\ window_violations' = [window_violations EXCEPT ![p] =
                                Min(@ + Metrics(p).violations_count, MaxWindow)]
    /\ IF IntervalElapsed(now, last_log_time[p])
       THEN /\ log_call' = [log_call EXCEPT ![p] = SaveComplianceLog(p, log_id)]
            /\ last_log_time' = [last_log_time EXCEPT ![p] = LastLogTimeAfter(p, log_id)]
            /\ IF ViolationEvents(p, log_id) # <<>>
               THEN event_ids' = [event_ids EXCEPT ![p] = event_id]
               ELSE event_id = "id" /\ UNCHANGED event_ids
            /\ CallTakes(took)
       ELSE /\ log_id = "id"
            /\ event_id = "id"
            /\ took = 0
            /\ UNCHANGED <<now, log_call, last_log_time, event_ids>>
    /\ idx' = [idx EXCEPT ![p] = 1]
    /\ pc' = [pc EXCEPT ![p] = AfterLogging(p)]
    /\ UNCHANGED <<config, handles, stream, shared, detections, metrics, snapshot_path, stamp, snap_obs,
                   prev_log, window_captures, send_obs>>

\* (mutant) a type is alerted once, when its entry does not exist yet
ShouldSendAlert_Once(t) == t \notin DOMAIN last_alert_time

\* (mutant) the cooldown test with > for >=
ShouldSendAlert_Strict(t) == now - LastAlert(t) > ALERT_COOLDOWN_SECONDS

\* AlertManager.should_send_alert
ShouldSendAlert(t) == now - LastAlert(t) >= ALERT_COOLDOWN_SECONDS

NextDetail(p) ==
    IF idx[p] < Len(Metrics(p).violation_details)
    THEN /\ idx' = [idx EXCEPT ![p] = @ + 1]
         /\ pc' = [pc EXCEPT ![p] = "check"]
    ELSE /\ idx' = [idx EXCEPT ![p] = 1]
         /\ pc' = [pc EXCEPT ![p] = "encode"]

\* one turn of the alert loop up to the cooldown check; reading the
\* defaultdict creates the entry
CheckCooldown(p) ==
    /\ pc[p] = "check"
    /\ LET t == Detail(p).violation_type
       IN /\ last_alert_time' = Put(last_alert_time, t, LastAlert(t))
          /\ IF ShouldSendAlert(t)
             THEN /\ pc' = [pc EXCEPT ![p] = "format"]
                  /\ UNCHANGED idx
             ELSE NextDetail(p)
    /\ UNCHANGED <<config, handles, now, stream, counter, detections, metrics, last_log_time, snapshot_path,
                   stamp, snap_obs, flush_obs, send_obs>>

\* format_alert_message([detail], datetime.datetime.utcnow()): the text of
\* the alert carries the time read here
FormatMessage(p) ==
    /\ pc[p] = "format"
    /\ last_msg' = [last_msg EXCEPT ![p] = FormatAlertMessage(<<Detail(p)>>, now)]
    /\ pc' = [pc EXCEPT ![p] = "send"]
    /\ UNCHANGED <<config, handles, now, stream, shared, locals, snap_obs, flush_obs, sent,
                   nsent, sent_now>>

\* (mutant) a send that failed ends the run
AfterSend_RaiseOnFailure(ok) == IF ok THEN "record" ELSE "aborted"

\* where the run goes after send_sms returned ok: its value is not read
AfterSend(ok) == "record"

\* sms_notifier.send_sms is called with the text, and returns ok after `took`
\* seconds
SendSms(p, ok, took) ==
    /\ pc[p] = "send"
    /\ LET t == Detail(p).violation_type
       IN sent' = Put(sent, t,
              [at |-> now, ok |-> ok,
               n |-> IF t \in DOMAIN sent THEN sent[t].n + 1 ELSE 1])
    /\ nsent' = [nsent EXCEPT ![p] = @ + 1]
    /\ sent_now' = [sent_now EXCEPT ![p] = Append(@, Detail(p).violation_type)]
    /\ pc' = [pc EXCEPT ![p] = AfterSend(ok)]
    /\ CallTakes(took)
    /\ UNCHANGED <<config, handles, stream, shared, locals, snap_obs, flush_obs, last_msg>>

\* (mutant) the cooldown is reset only by a send that succeeded
RecordAlertSentFor_OnSuccess(t, at) ==
    IF sent[t].ok THEN Put(last_alert_time, t, at) ELSE last_alert_time

\* AlertManager.record_alert_sent: the entry of the type becomes the time
\* that was read
RecordAlertSentFor(t, at) == Put(last_alert_time, t, at)

\* record_alert_sent for the detail just sent is called and reads the clock
RecordTime(p) ==
    /\ pc[p] = "record"
    /\ stamp' = [stamp EXCEPT ![p] = now]
    /\ pc' = [pc EXCEPT ![p] = "store"]
    /\ UNCHANGED <<config, handles, now, stream, shared, detections, metrics, last_log_time,
                   snapshot_path, idx, snap_obs, flush_obs, send_obs>>

\* record_alert_sent stores the time it read, then the next detail
RecordAlertSent(p) ==
    /\ pc[p] = "store"
    /\ last_alert_time' = RecordAlertSentFor(Detail(p).violation_type, stamp[p])
    /\ stamp' = [stamp EXCEPT ![p] = 0]
    /\ NextDetail(p)
    /\ UNCHANGED <<config, handles, now, stream, counter, detections, metrics, last_log_time, snapshot_path,
                   snap_obs, flush_obs, send_obs>>

\* the loop goes round: the names bound by this iteration are bound again
\* before they are read
NextIteration(p) ==
    /\ detections' = [detections EXCEPT ![p] = <<>>]
    /\ metrics' = [metrics EXCEPT ![p] = NoMetrics]
    /\ before' = [before EXCEPT ![p] = 0]
    /\ captured' = [captured EXCEPT ![p] = FALSE]
    /\ seen' = [seen EXCEPT ![p] = 0]
    /\ log_call' = [log_call EXCEPT ![p] = NoCall]
    /\ prev_log' = [prev_log EXCEPT ![p] =
                       IF log_call[p].calls > 0
                       THEN [log_call[p] EXCEPT !.calls = 1, !.person_count = 0,
                                !.ppe_worn_count = 0, !.violations_count = 0,
                                !.status = <<>>, !.frame_snapshot_path = NoPath,
                                !.events = <<>>]
                       ELSE @]
    /\ window_violations' = [window_violations EXCEPT ![p] =
                                IF log_call[p].calls > 0 THEN 0 ELSE @]
    /\ window_captures' = [window_captures EXCEPT ![p] =
                              IF log_call[p].calls > 0 THEN <<>> ELSE @]
    /\ event_ids' = [event_ids EXCEPT ![p] = NoEvents]
    /\ last_msg' = [last_msg EXCEPT ![p] = <<>>]
    /\ sent_now' = [sent_now EXCEPT ![p] = <<>>]
    /\ pc' = [pc EXCEPT ![p] = "read"]
    /\ UNCHANGED <<config, handles, now, stream, shared, last_log_time, snapshot_path, idx, stamp, ncap,
                   streak, sent, nsent>>

\* cv2.imencode returns: the frame is yielded if it was encoded; if not, an
\* error is logged and the loop continues with the next frame, nothing
\* being yielded
Encode(p, ok) ==
    /\ pc[p] = "encode"
    /\ IF ok
       THEN /\ pc' = [pc EXCEPT ![p] = "yield"]
            /\ UNCHANGED <<config, handles, now, stream, shared, locals, snap_obs, flush_obs,
                           send_obs>>
       ELSE NextIteration(p)

\* the generator is resumed after the yield: pacing, and the loop goes round
YieldFrame(p) ==
    /\ pc[p] = "yield"
    /\ NextIteration(p)

\* (mutant) the generator can be closed wherever it stands in the frame
Suspended_Anywhere(p) ==
    pc[p] \in {"analyze", "snapshot", "capture", "log", "check", "format", "send", "record",
               "store", "encode", "yield"}

\* the generator is suspended, and can be closed, only at its yield
Suspended(p) == pc[p] = "yield"

\* the caller closes the generator: GeneratorExit is raised at the yield,
\* `except Exception` does not catch it, the finally clause passes
Close(p) ==
    /\ Suspended(p)
    /\ pc' = [pc EXCEPT ![p] = "closed"]
    /\ UNCHANGED <<config, handles, now, stream, shared, locals, snap_obs, flush_obs, send_obs>>

\* a statement of the loop body other than the detector call raises an
\* Exception: draw_detections before the analysis, a statement of the
\* snapshot logic, current_app.app_context() outside an application context
\* when a compliance log is due, a statement of the alert loop, imencode
Raises(p) ==
    /\ \/ pc[p] \in {"analyze", "snapshot", "check", "format", "send", "record", "encode"}
       \/ pc[p] = "log" /\ IntervalElapsed(now, last_log_time[p])
    /\ pc' = [pc EXCEPT ![p] = AfterException(p)]
    /\ UNCHANGED <<config, handles, now, stream, shared, locals, snap_obs, flush_obs, send_obs>>

\* the value a collaborator returns when it succeeded or failed
IdOrNone(ok) == IF ok THEN "id" ELSE "None"

\* one step of a run that makes no capture: the detector returns one of
\* camera_frames for a camera frame, the collaborators succeed as in
\* `outcomes` and return after one of `durations`
LoopStepOf(p, camera_frames, durations, outcomes) ==
    \/ CacheMiss(p)
    \/ ReleaseCached(p)
    \/ Construct(p)
    \/ OpenBegins(p)
    \/ CaptureMade(p, TRUE)
    \/ IsOpened(p)
    \/ Opened(p)
    \/ Start(p)
    \/ EnterLoop(p)
    \/ \E f \in Readable(p, camera_frames) : ReadFrame(p, f)
    \/ Analysis(p)
    \/ EndOfStream(p)
    \/ \E f \in Readable(p, camera_frames) : DetectRaises(p)
    \/ SnapshotLogic(p)
    \/ \E logged \in outcomes, written \in outcomes, took \in durations :
          Logging(p, IdOrNone(logged), IdOrNone(written), took)
    \/ CheckCooldown(p)
    \/ FormatMessage(p)
    \/ \E ok \in outcomes, took \in durations : SendSms(p, ok, took)
    \/ RecordTime(p)
    \/ RecordAlertSent(p)
    \/ \E ok \in outcomes : Encode(p, ok)
    \/ YieldFrame(p)

\* the same, with the capture of a run that reaches the snapshot threshold
StepOf(p, camera_frames, durations, outcomes) ==
    \/ LoopStepOf(p, camera_frames, durations, outcomes)
    \/ \E saved \in outcomes : Capture(p, saved)

NextOf(camera_frames, deltas, horizon, durations, outcomes) ==
    \/ \E d \in deltas : Tick(d, horizon)
    \/ \E p \in Pipelines : StepOf(p, camera_frames, durations, outcomes)

NextOn(camera_frames, deltas, horizon) ==
    NextOf(camera_frames, deltas, horizon, {0}, BOOLEAN)

\* ---------------------------------------------------------- specifications

\* Alerting: frames with one or two violation types; the clock moves by a
\* little less than the cooldown, or by the cooldown.
AlertFrames == {F_EMPTY, F_NO_HELMET, F_TWO_NO_HELMET, F_VEST_AND_HELMET}

NextAlert == NextOn(AlertFrames, {55, 60}, AlertHorizon)

SpecAlert == Init /\ [][NextAlert]_vars

\* Snapshot trigger: frames with zero, one and two violations.
SnapFrames == {F_EMPTY, F_COMPLIANT, F_NO_HELMET, F_TWO_NO_HELMET}

NextSnap == NextOn(SnapFrames, {60}, SnapHorizon)

SpecSnap == Init /\ [][NextSnap]_vars

\* Compliance log: frames with different metrics; the clock moves by the
\* log interval.
LogFrames == {F_EMPTY, F_WORN, F_NO_HELMET, F_TWO_NO_HELMET}

NextLog == NextOn(LogFrames, {5}, LogHorizon)

SpecLog == Init /\ [][NextLog]_vars

\* The end-to-end scenario of the specification: a source of six frames,
\* five with one "no-helmet" detection each, then one with no detection.
E2EFrames == [i \in 1..6 |-> IF i <= 5 THEN F_NO_HELMET ELSE F_EMPTY]

InitE2E == InitWith({1}, VideoFile(E2EFrames))

NextE2E == NextOn({}, {60}, SnapHorizon)

SpecE2E == InitE2E /\ [][NextE2E]_vars

\* Slow collaborators: the database and the SMS provider answer at once or
\* after SlowCall seconds, as long as the alert cooldown; a frame can have a
\* violation type recur after another type. The clock moves by the cooldown.
SlowFrames == {F_EMPTY, F_NO_HELMET, F_TWO_NO_HELMET, F_HELMET_VEST_HELMET}

NextSlow == NextOf(SlowFrames, {60}, SlowHorizon, {0, SlowCall}, BOOLEAN)

SpecSlow == Init /\ [][NextSlow]_vars

\* Two calls of generate_frames in one process, for the same camera or for
\* two cameras, their steps interleaved wherever the code makes a call that
\* lets another thread run; the collaborators succeed, and the clock stands
\* still meanwhile. A capture that the other run releases while open() is
\* still testing it makes the open fail. The camera shows a missing helmet
\* at every frame.
InitTwo ==
    \E other \in {Camera, Camera1} :
        InitSources({1, 2}, [p \in Pipelines |-> IF p = 1 THEN Camera ELSE other])

NextTwo ==
    \E p \in Pipelines :
        \/ StepOf(p, {F_NO_HELMET}, {0}, {TRUE})
        \/ OpenFails(p)
        \/ AfterBlank(p)

SpecTwo == InitTwo /\ [][NextTwo]_vars

\* A caller that stops consuming: the run can be closed at its yield.
StopFrames == {F_EMPTY, F_NO_HELMET, F_VEST_AND_HELMET}

NextStop ==
    \/ NextOn(StopFrames, {5}, StopHorizon)
    \/ \E p \in Pipelines : Close(p)

SpecStop == Init /\ [][NextStop]_vars

\* Frame analysis: a source of two frames for which the detector returns the
\* same detection list, any list of up to MaxDets detections of the classes
\* below; detection i of a list has box i and confidence 10 - i.
ClassNames == {PERSON, HELMET, VEST, GLOVES, NO_HELMET, NO_GLOVES, BOOTS}

DetectionListsUpTo(len) ==
    UNION {{[i \in 1..n |-> Det(names[i], i, 10 - i)] : names \in [1..n -> ClassNames]} :
              n \in 0..len}

DetectionLists == DetectionListsUpTo(MaxDets)

InitAnalyze ==
    \E dets \in DetectionLists : InitWith({1}, VideoFile(<<dets, dets>>))

\* a file of two frames does not reach the snapshot threshold
NextAnalyze ==
    \/ \E d \in {5} : Tick(d, AnalyzeHorizon)
    \/ \E p \in Pipelines : LoopStepOf(p, {}, {0}, {TRUE})

SpecAnalyze == InitAnalyze /\ [][NextAnalyze]_vars

\* The same, the two frames read by two calls that share the stream, each
\* analysing its frame in the state the other has left.
PureLists == DetectionListsUpTo(MaxPureDets)

InitPure ==
    \E dets \in PureLists : InitWith({1, 2}, VideoFile(<<dets, dets>>))

NextPure ==
    \/ \E d \in {5} : Tick(d, PureHorizon)
    \/ \E p \in Pipelines :
          \/ LoopStepOf(p, {}, {0}, {TRUE})
          \/ OpenFails(p)
          \/ AfterBlank(p)

SpecPure == InitPure /\ [][NextPure]_vars

\* Other settings: snapshots enabled or disabled, and a threshold of 1 or
\* more consecutive violating frames.
Settings ==
    [SAVE_VIOLATION_SNAPSHOT : BOOLEAN,
     SNAPSHOT_CONSECUTIVE_VIOLATIONS : 1..MaxThreshold]

InitConfig ==
    \E settings \in Settings :
        InitConfigured({1}, [p \in Pipelines |-> Camera], settings)

NextConfig == NextOf({F_EMPTY, F_NO_HELMET}, {5}, ConfigHorizon, {0}, {TRUE})

SpecConfig == InitConfig /\ [][NextConfig]_vars

\* Calls one after the other: a run ends and generate_frames is called again,
\* for the same source or another; a source may fail to open. The calls are
\* those of app/routes.py, or those of the copy in app/detection/detector.py.
StreamSources == {Camera, Camera1, VideoFile(<<F_NO_HELMET>>), Image(F_EMPTY)}

InitStreams ==
    \E src \in StreamSources, m \in {ROUTES, DETECTOR} :
        InitModules({1}, [p \in Pipelines |-> src], DefaultConfig, [p \in Pipelines |-> m])

NextStreams ==
    \/ NextOf({F_NO_HELMET}, {1}, StreamsHorizon, {0}, {TRUE})
    \/ \E p \in Pipelines :
          \/ CaptureMade(p, FALSE)
          \/ LoadRaises(p)
          \/ OpenFails(p)
          \/ AfterBlank(p)
          \/ StartNoDetector(p)
          \/ \E src \in StreamSources : NewCall(p, src)

SpecStreams == InitStreams /\ [][NextStreams]_vars

\* The copy of the pipeline in app/detection/detector.py, which nothing in
\* the repository calls: its generate_frames on the end-to-end source, a
\* compliance log falling due at every frame.
InitCopy ==
    InitModules({1}, [p \in Pipelines |-> VideoFile(E2EFrames)], DefaultConfig,
                [p \in Pipelines |-> DETECTOR])

NextCopy ==
    \/ Tick(LOG_INTERVAL_SECONDS, CopyHorizon)
    \/ \E p \in Pipelines :
          \/ CacheMiss(p)
          \/ ReleaseCached(p)
          \/ Construct(p)
          \/ OpenBegins(p)
          \/ CaptureMade(p, TRUE)
          \/ IsOpened(p)
          \/ Opened(p)
          \/ Start(p)
          \/ EnterLoop(p)
          \/ \E f \in Readable(p, {}) : ReadFrame(p, f)
          \/ Analysis(p)
          \/ EndOfStream(p)
          \/ \E f \in Readable(p, {}) : DetectRaises(p)
          \/ \E logged \in BOOLEAN, written \in BOOLEAN :
                Logging(p, IdOrNone(logged), IdOrNone(written), 0)
          \/ \E ok \in BOOLEAN : Encode(p, ok)
          \/ YieldFrame(p)

SpecCopy == InitCopy /\ [][NextCopy]_vars

\* Exceptions: any statement of the loop body may raise.
RaiseFrames == {F_EMPTY, F_NO_HELMET}

NextRaise ==
    \/ NextOn(RaiseFrames, {5}, RaiseHorizon)
    \/ \E p \in Pipelines : Raises(p)

SpecRaise == Init /\ [][NextRaise]_vars

\* Liveness of alerting: a camera whose every frame shows a missing helmet,
\* some a missing vest too; the camera delivers a frame and the detector
\* returns at every read; captures and database writes succeed, sends
\* succeed or fail. The server thread keeps
\* iterating the generator, so a run that can take a step takes it.
LiveFrames == {F_NO_HELMET, F_VEST_AND_HELMET}

LiveStep(p) ==
    \/ CacheMiss(p)
    \/ ReleaseCached(p)
    \/ Construct(p)
    \/ OpenBegins(p)
    \/ CaptureMade(p, TRUE)
    \/ IsOpened(p)
    \/ Opened(p)
    \/ Start(p)
    \/ EnterLoop(p)
    \/ \E f \in Readable(p, LiveFrames) : ReadFrame(p, f)
    \/ Analysis(p)
    \/ SnapshotLogic(p)
    \/ Capture(p, TRUE)
    \/ Logging(p, IdOrNone(TRUE), IdOrNone(TRUE), 0)
    \/ CheckCooldown(p)
    \/ FormatMessage(p)
    \/ \E ok \in BOOLEAN : SendSms(p, ok, 0)
    \/ RecordTime(p)
    \/ RecordAlertSent(p)
    \/ \E ok \in BOOLEAN : Encode(p, ok)
    \/ YieldFrame(p)

NextLive ==
    \/ Tick(60, LiveHorizon)
    \/ \E p \in Pipelines : LiveStep(p)

SpecLive == Init /\ [][NextLive]_vars /\ \A p \in Pipelines : WF_vars(LiveStep(p))

\* Static image: one run on an image, or on a video file of two frames.
ImageSources == {Image(F_NO_HELMET), Image(F_EMPTY), VideoFile(<<F_NO_HELMET, F_EMPTY>>)}

InitImage == \E src \in ImageSources : InitWith({1}, src)

NextImage == NextOn({}, {5}, ImageHorizon)

SpecImage == InitImage /\ [][NextImage]_vars

\* Two requests on image files and a camera, one call after another and
\* side by side, the clock standing still: a cached image is released, and
\* an image is read while the other run is loading it. The caller may stop a
\* run at its yield, and an image file may fail to load.
SharedSources == {Image(F_EMPTY), Image(F_COMPLIANT), Camera}

InitShared ==
    \E other \in SharedSources :
        InitSources({1, 2}, [p \in Pipelines |-> IF p = 1 THEN Image(F_EMPTY) ELSE other])

NextShared ==
    \E p \in Pipelines :
        \/ CacheMiss(p)
        \/ ReleaseCached(p)
        \/ Construct(p)
        \/ OpenBegins(p)
        \/ \E ok \in BOOLEAN : CaptureMade(p, ok)
        \/ LoadRaises(p)
        \/ IsOpened(p)
        \/ Opened(p)
        \/ OpenFails(p)
        \/ AfterBlank(p)
        \/ Start(p)
        \/ EnterLoop(p)
        \/ \E f \in Readable(p, {F_EMPTY}) : ReadFrame(p, f)
        \/ Analysis(p)
        \/ ReadRaises(p)
        \/ EndOfStream(p)
        \/ SnapshotLogic(p)
        \/ Logging(p, IdOrNone(TRUE), IdOrNone(TRUE), 0)
        \/ \E ok \in BOOLEAN : Encode(p, ok)
        \/ YieldFrame(p)
        \/ Close(p)
        \/ \E src \in SharedSources : NewCall(p, src)

SpecShared == InitShared /\ [][NextShared]_vars

\* ------------------------------------------------------------- properties

\* the snapshot logic of the current frame of p has run
InFrame(p) ==
    pc[p] \in {"log", "check", "format", "send", "record", "store", "encode", "yield"}

\* the logging block of the current frame of p has run
Logged(p) == pc[p] \in {"check", "format", "send", "record", "store", "encode", "yield"}

\* time of the last send_sms call for a type; the epoch when there was none
SentAt(t) == IF t \in DOMAIN sent THEN sent[t].at ELSE 0

\* the text holds the tokens `toks` in a row on one line
ContainsText(msg, toks) ==
    \E l \in DOMAIN msg :
        \E o \in 0..(Len(msg[l]) - Len(toks)) :
            SubSeq(msg[l], o + 1, o + Len(toks)) = toks

\* C1: two sends for the same violation type are never less than the cooldown
\* apart: a send_sms call for a type is made only when the cooldown has
\* elapsed since the last send_sms call for it, and the cooldown check of a
\* violating frame goes on to send exactly when it has.
C1_CooldownBetweenSends ==
    [][\A p \in Pipelines :
          /\ (pc[p] = "send" /\ pc'[p] = "record")
                => now - SentAt(Detail(p).violation_type) >= ALERT_COOLDOWN_SECONDS
          /\ (pc[p] = "check" /\ <<pc[p], idx[p]>>' # <<pc[p], idx[p]>>)
                => (pc'[p] = "format"
                      <=> now - SentAt(Detail(p).violation_type) >= ALERT_COOLDOWN_SECONDS)
      ]_vars

C1_Witness ==
    /\ NO_HELMET \in DOMAIN sent
    /\ sent[NO_HELMET].n = 2
    /\ sent[NO_HELMET].at = StartTime + ALERT_COOLDOWN_SECONDS

\* C2: once a send has been attempted for a type and recorded, last_sent_at of
\* the type is the time of the attempt, whether the notifier returned true or
\* false; a send that follows a failed send for the type comes no sooner than
\* a cooldown after it.
C2_CooldownResetsOnAttempt ==
    /\ \A t \in DOMAIN sent :
          (\A p \in Pipelines : pc[p] \in {"record", "store"} => Detail(p).violation_type # t)
             => LastAlert(t) = sent[t].at
    /\ \A p \in Pipelines :
          pc[p] \in {"format", "send"} =>
             LET t == Detail(p).violation_type
             IN (t \in DOMAIN sent /\ ~sent[t].ok)
                   => now - sent[t].at >= ALERT_COOLDOWN_SECONDS

\* a violating frame went through the alert loop 55 s after a failed send
\* for its type, and nothing was sent
C2_Witness ==
    /\ pc[1] = "yield"
    /\ Metrics(1).violations_count > 0
    /\ NO_HELMET \in DOMAIN sent
    /\ ~sent[NO_HELMET].ok
    /\ now = sent[NO_HELMET].at + 55
    /\ LastAlert(NO_HELMET) = sent[NO_HELMET].at

\* C3: counting consecutive violating frames from a counter of 0, a snapshot
\* is requested on exactly the frame that makes the streak reach the
\* threshold, and on none of the frames before it.
C3_CaptureOnNthFrame ==
    \A p \in Pipelines :
        InFrame(p) =>
            /\ captured[p] <=> seen[p] = SNAPSHOT_CONSECUTIVE_VIOLATIONS
            /\ seen[p] <= SNAPSHOT_CONSECUTIVE_VIOLATIONS

C3_Witness ==
    /\ InFrame(1)
    /\ captured[1]
    /\ seen[1] = SNAPSHOT_CONSECUTIVE_VIOLATIONS

\* C4: after the snapshot logic of a frame with zero violations the counter
\* is 0 and no capture was requested, whatever the counter was before.
C4_ZeroViolationsReset ==
    \A p \in Pipelines :
        (InFrame(p) /\ Metrics(p).violations_count = 0)
            => (counter = 0 /\ ~captured[p])

C4_Witness ==
    /\ InFrame(1)
    /\ Metrics(1).violations_count = 0
    /\ before[1] = SNAPSHOT_CONSECUTIVE_VIOLATIONS - 1
    /\ counter = 0

\* C5: the snapshot logic of a frame requests a capture exactly when the frame
\* is violating and brings the counter to the threshold; it then requests one
\* capture, leaves the counter at 0, and at least `threshold` violating frames
\* in a row have passed since the capture before.
C5_OneCapturePerCrossing ==
    [][\A p \in Pipelines :
          /\ (pc[p] = "snapshot" /\ pc'[p] # "snapshot") =>
                /\ pc'[p] = "capture" <=>
                      (/\ Metrics(p).violations_count > 0
                       /\ counter + 1 = SNAPSHOT_CONSECUTIVE_VIOLATIONS)
                /\ pc'[p] # "capture" =>
                      (pc'[p] = "log" /\ ~captured'[p] /\ ncap'[p] = ncap[p])
          /\ (pc[p] = "capture" /\ pc'[p] # "capture") =>
                /\ pc'[p] = "log"
                /\ captured'[p]
                /\ counter' = 0
                /\ ncap'[p] = ncap[p] + 1
                /\ seen'[p] >= SNAPSHOT_CONSECUTIVE_VIOLATIONS
      ]_vars

\* the second capture of a run
C5_Witness ==
    /\ InFrame(1)
    /\ captured[1]
    /\ ncap[1] = 2
    /\ counter = 0

\* C6: when the threshold is reached the counter is reset to 0 whether
\* save_frame_snapshot returned a path or None.
C6_ResetWhateverTheCapture ==
    \A p \in Pipelines :
        (InFrame(p) /\ captured[p]) =>
            /\ counter = 0
            /\ snapshot_path[p] \in {NoPath, <<"snapshots", ncap[p]>>}

C6_Witness ==
    /\ InFrame(1)
    /\ captured[1]
    /\ snapshot_path[1] = NoPath
    /\ counter = 0

\* C7: a source of six frames, five with one "no-helmet" detection and then
\* one without detection, read by a fresh process with no compliance log
\* falling due during the run: the capture is requested on frame 5 and on no
\* other, every alert text holds "1x missing helmet", and at the end one
\* capture was requested, one alert was sent and the counter is 0.
C7_EndToEnd ==
    /\ InFrame(1) => (captured[1] <=> Len(StreamOf(1).frames) = 1)
    /\ pc[1] = "record" =>
          ContainsText(last_msg[1], <<"1", "x ", "missing ", "helmet">>)
    /\ (pc[1] = "done" /\ prev_log[1].calls = 0) =>
          /\ ncap[1] = 1
          /\ nsent[1] = 1
          /\ counter = 0

C7_Witness ==
    /\ pc[1] = "done"
    /\ StreamOf(1).frames = <<>>
    /\ prev_log[1].calls = 0
    /\ ncap[1] = 1
    /\ nsent[1] = 1
    /\ counter = 0

\* C8: the person, worn-PPE and violation counts and the status written by a
\* compliance log are those of the frame that triggers it, not a sum over
\* the frames of the interval.
C8_LastFrameWins ==
    \A p \in Pipelines :
        (Logged(p) /\ log_call[p].calls > 0) =>
            LET dets == detections[p]
                persons == Cardinality({i \in DOMAIN dets : dets[i].class_name = PERSON})
                worn == Cardinality({i \in DOMAIN dets :
                            dets[i].class_name \in {HELMET, <<"vest">>, GLOVES}})
                viols == Cardinality({i \in DOMAIN dets : dets[i].class_name[1] = "no-"})
            IN /\ log_call[p].person_count = persons
               /\ log_call[p].ppe_worn_count = worn
               /\ log_call[p].violations_count = viols
               /\ log_call[p].status = StatusMessage(persons, viols)

\* a log written for a frame with one violation, after a frame of the same
\* interval with more
C8_Witness ==
    /\ Logged(1)
    /\ log_call[1].calls > 0
    /\ log_call[1].violations_count = 1
    /\ window_violations[1] = 3

\* C9: the logging block of a frame writes a compliance log exactly when the
\* log interval has elapsed since the window started, writes at most one,
\* and writes it no sooner than a log interval after the run's previous one.
C9_OneFlushPerInterval ==
    [][\A p \in Pipelines :
          (pc[p] = "log" /\ pc'[p] # "log") =>
             /\ log_call'[p].calls = 1
                   <=> now - last_log_time[p] >= LOG_INTERVAL_SECONDS
             /\ log_call'[p].calls <= 1
             /\ (log_call'[p].calls = 1 /\ prev_log[p].calls > 0)
                   => now - prev_log[p].at >= LOG_INTERVAL_SECONDS
      ]_vars

\* the second compliance log of a run, exactly one interval after the first
C9_Witness ==
    /\ Logged(1)
    /\ log_call[1].calls = 1
    /\ prev_log[1].calls > 0
    /\ log_call[1].at = prev_log[1].at + LOG_INTERVAL_SECONDS

\* C10: every save_compliance_log call, also one that returns None, sets the
\* window start to the time of the call, and the call after a failed one
\* comes no sooner than a log interval later.
C10_FlushAlwaysRotates ==
    \A p \in Pipelines :
        (Logged(p) /\ log_call[p].calls > 0) =>
            /\ last_log_time[p] = log_call[p].at
            /\ (prev_log[p].calls > 0 /\ prev_log[p].log_id = "None")
                  => log_call[p].at - prev_log[p].at >= LOG_INTERVAL_SECONDS

\* a failed call, then the next call one interval later, failed as well
C10_Witness ==
    /\ Logged(1)
    /\ log_call[1].calls > 0
    /\ log_call[1].log_id = "None"
    /\ last_log_time[1] = now
    /\ prev_log[1].calls > 0
    /\ prev_log[1].log_id = "None"

\* C11 (as claimed): a successful compliance log is followed by one
\* violation-event write per violation of every frame processed since the
\* previous log.
C11_EventsOfTheWindow ==
    \A p \in Pipelines :
        (Logged(p) /\ log_call[p].calls > 0 /\ log_call[p].log_id # "None") =>
            Len(log_call[p].events) = window_violations[p]

\* C11 (amended): a successful compliance log is followed by one
\* violation-event write per violation of the frame that triggers it, each
\* with the class name, box and confidence of its detection and in the
\* order of the detections; the violations of the earlier frames of the
\* interval are not written.
C11_EventsOfTheFlushingFrame ==
    \A p \in Pipelines :
        (Logged(p) /\ log_call[p].calls > 0 /\ log_call[p].log_id # "None") =>
            LET dets == detections[p]
                viol == {i \in DOMAIN dets : dets[i].class_name[1] = "no-"}
                ev == log_call[p].events
                \* position in dets of the k-th violation
                At(k) == CHOOSE i \in viol :
                            Cardinality({j \in viol : j <= i}) = k
            IN /\ Len(ev) = Cardinality(viol)
               /\ \A k \in DOMAIN ev :
                     /\ ev[k].violation_type = dets[At(k)].class_name
                     /\ ev[k].location_box = dets[At(k)].box
                     /\ ev[k].confidence = dets[At(k)].confidence

\* a successful log at a frame with one violation, after frames of the same
\* interval with more
C11_Witness ==
    /\ Logged(1)
    /\ log_call[1].log_id = "id"
    /\ Len(log_call[1].events) = 1
    /\ window_violations[1] = 3

\* C12 (as claimed): when several captures happen inside one log interval,
\* the compliance log of the interval is written with the path of the first
\* of them.
C12_FirstCaptureWins ==
    \A p \in Pipelines :
        (Logged(p) /\ log_call[p].calls > 0 /\ Len(window_captures[p]) >= 2) =>
            LET got == {i \in DOMAIN window_captures[p] : window_captures[p][i] # NoPath}
                first == IF got = {} THEN NoPath
                         ELSE window_captures[p][CHOOSE i \in got : \A j \in got : i <= j]
            IN log_call[p].frame_snapshot_path = first

\* C12 (amended): when several captures happen inside one log interval, the
\* compliance log of the interval is written with what the last of them
\* returned (its path, or no path when it failed); every later capture
\* replaces the result of the earlier ones.
C12_LastCaptureWins ==
    \A p \in Pipelines :
        (Logged(p) /\ log_call[p].calls > 0 /\ Len(window_captures[p]) >= 2) =>
            log_call[p].frame_snapshot_path
                = window_captures[p][Len(window_captures[p])]

\* a compliance log after two successful captures in its interval
C12_Witness ==
    /\ Logged(1)
    /\ log_call[1].calls > 0
    /\ window_captures[1] = << <<"snapshots", 1>>, <<"snapshots", 2>> >>
    /\ log_call[1].frame_snapshot_path = <<"snapshots", 2>>

\* C13 (as claimed): a frame that was read is processed whether or not the
\* detector raised on it: the run goes on to the snapshot logic (with no
\* detections when the detector raised) and is not ended.
C13_DetectorExceptionSkipsFrame ==
    [][\A p \in Pipelines :
          (pc[p] = "read" /\ pc'[p] \notin {"read", "done"}) =>
             pc'[p] = "analyze"
      ]_vars

\* C14: a collaborator that fails (save_frame_snapshot, save_compliance_log
\* or save_violation_event returning None, send_sms returning false) does not
\* end the loop: every step of a frame's processing leads to the next step of
\* the loop, the frame goes on to its encoding and yield and the run is back
\* at reading a frame.
C14_FailuresDoNotEndTheLoop ==
    [][\A p \in Pipelines :
          /\ pc[p] \in {"snapshot", "capture", "log", "check", "format", "send", "record",
                        "store"}
                => pc'[p] \in {"snapshot", "capture", "log", "check", "format", "send",
                               "record", "store", "encode"}
          /\ pc[p] = "encode" => pc'[p] \in {"encode", "yield", "read"}
          /\ pc[p] = "yield" => pc'[p] \in {"yield", "read"}
      ]_vars

\* a frame about to be yielded whose capture, violation-event writes and
\* send all failed
C14_Witness ==
    /\ pc[1] = "yield"
    /\ captured[1]
    /\ snapshot_path[1] = NoPath
    /\ log_call[1].calls > 0
    /\ event_ids[1] = "None"
    /\ last_msg[1] # <<>>
    /\ \E t \in DOMAIN sent : sent[t].at = now /\ ~sent[t].ok

\* C15: when read_frame returns no frame the run ends there, by a normal
\* return: it goes from reading to its end without processing anything, and
\* a run that has ended makes no further detection, snapshot, persistence
\* write or alert.
C15_NoFrameEndsTheRun ==
    [][\A p \in Pipelines :
          /\ (pc[p] = "read" /\ pc'[p] # "read" /\ StreamOf(p).kind = "file"
                 /\ stream' = stream)
                => pc'[p] = "done"
          /\ pc[p] = "done" =>
                /\ pc'[p] = "done"
                /\ detections'[p] = detections[p]
                /\ ncap'[p] = ncap[p]
                /\ log_call'[p] = log_call[p]
                /\ event_ids'[p] = event_ids[p]
                /\ nsent'[p] = nsent[p]
                /\ counter' = counter
                /\ last_alert_time' = last_alert_time
      ]_vars

\* the file is exhausted and the run has ended after a capture, a compliance
\* log and two alerts
C15_Witness ==
    /\ pc[1] = "done"
    /\ StreamOf(1).kind = "file"
    /\ StreamOf(1).frames = <<>>
    /\ ncap[1] = 1
    /\ prev_log[1].calls = 1
    /\ nsent[1] = 2

\* C16 (as claimed): in the processing of one frame send_sms is called at
\* most once for each violation type, however many violations of the type
\* the frame has and however long the calls take.
C16_OneSendPerTypeAndFrame ==
    \A p \in Pipelines :
        \A i, j \in DOMAIN sent_now[p] :
            i # j => sent_now[p][i] # sent_now[p][j]

\* C17 (as claimed): the bullet of a violation type in the alert text sent
\* for a frame gives the number of violations of that type in the frame.
C17_BulletCountsTheFrame ==
    \A p \in Pipelines :
        pc[p] = "record" =>
            LET t == Detail(p).violation_type
                n == Cardinality({i \in DOMAIN detections[p] :
                                     detections[p][i].class_name = t})
            IN ContainsText(last_msg[p],
                   <<"- ">> \o Str(n) \o <<"x ">> \o Replace(t, "no-", "missing "))

\* C18 (as claimed): a frame is delivered without waiting for the compliance
\* log or the alerts of its iteration: when it is yielded no time has passed
\* since these calls were made, however long they take to return.
C18_DeliveryDoesNotWait ==
    \A p \in Pipelines :
        pc[p] = "yield" =>
            /\ log_call[p].calls > 0 => log_call[p].at = now
            /\ \A i \in DOMAIN sent_now[p] : sent[sent_now[p][i]].at = now

\* C19 (as claimed): each run has its own consecutive-violation count: the
\* count a run is going to see is changed by no step other than that run's
\* own snapshot logic, and a run that starts finds it at 0.
C19_OwnSnapshotState ==
    [][\A p \in Pipelines :
          /\ (/\ pc[p] \notin {"off", "done", "aborted"}
              /\ ~(pc[p] \in {"snapshot", "capture"} /\ pc'[p] # pc[p]))
                => counter' = counter
          /\ (pc[p] = "enter" /\ pc'[p] = "read") => counter = 0
      ]_vars

\* C20 (as claimed): as long as a run is in its loop, the stream it reads
\* from stays open and stays the cached one, whatever other runs are started.
C20_HandleStaysOpen ==
    \A p \in Pipelines :
        pc[p] \in {"read", "analyze", "snapshot", "capture", "log", "check", "send",
                   "record", "encode", "yield"} =>
            /\ handle[p] \in open_handles
            /\ Cache(p).handle = handle[p]

\* C21 (as claimed): with the alert manager shared by the runs of one
\* process, no send_sms call for a violation type is made, by any run, less
\* than the cooldown after the last send_sms call any run made for the type.
C21_GlobalCooldown ==
    [][\A p \in Pipelines :
          nsent'[p] # nsent[p] =>
             \A t \in DOMAIN sent :
                 sent'[t] # sent[t] => now - sent[t].at >= ALERT_COOLDOWN_SECONDS
      ]_vars

\* the violation types among the detections of the current frame of p
FrameTypes(p) ==
    {detections[p][i].class_name : i \in {j \in DOMAIN detections[p] :
                                             detections[p][j].class_name[1] = "no-"}}

\* C22: a run is closed by its caller only at the yield of a frame: the
\* snapshot decision, the logging block and the alert loop of every frame it
\* started have run to their end. A closed run leaves no frame with its
\* compliance log written and an alert neither sent nor held back by the
\* cooldown.
C22_StopBetweenIterations ==
    \A p \in Pipelines :
        pc[p] = "closed" =>
            /\ log_call[p].calls > 0 => last_log_time[p] = log_call[p].at
            /\ log_call[p].calls = 0 => now - last_log_time[p] < LOG_INTERVAL_SECONDS
            /\ idx[p] = 1
            /\ \A t \in FrameTypes(p) :
                  /\ t \in DOMAIN last_alert_time
                  /\ now - last_alert_time[t] < ALERT_COOLDOWN_SECONDS
                  /\ (\E i \in DOMAIN sent_now[p] : sent_now[p][i] = t)
                        => last_alert_time[t] = sent[t].at

\* a run closed at a frame with two violation types, its compliance log
\* written and both alerts sent
C22_Witness ==
    /\ pc[1] = "closed"
    /\ log_call[1].calls > 0
    /\ log_call[1].violations_count = 2
    /\ sent_now[1] = <<NO_VEST, NO_HELMET>>

\* C23: the save_compliance_log calls of a run are made in window order:
\* each call is made strictly later than the start of its window, its window
\* starts at the time of the call before it, and that call has returned, so
\* the times of the calls are strictly increasing.
C23_FlushesInOrder ==
    [][\A p \in Pipelines :
          (pc[p] = "log" /\ log_call'[p].calls = 1) =>
             /\ log_call'[p].at = now
             /\ last_log_time[p] < now
             /\ prev_log[p].calls > 0 =>
                   /\ prev_log[p].at = last_log_time[p]
                   /\ prev_log[p].at < log_call'[p].at
             /\ now' >= now
             /\ last_log_time'[p] = log_call'[p].at
      ]_vars

\* the second compliance log of a run, made as soon as the first, a slow
\* one, had returned
C23_Witness ==
    /\ Logged(1)
    /\ log_call[1].calls = 1
    /\ prev_log[1].calls > 0
    /\ log_call[1].at = prev_log[1].at + SlowCall
    /\ last_log_time[1] = log_call[1].at

\* a step of run p keeps the order of an iteration: analysis, snapshot
\* logic (with the capture when it fires), logging block, alert loop, JPEG
\* encoding, and then one of `after_encode`; the next frame is read from the
\* yield, or from the encoding when that is among `after_encode`. A capture
\* is made only by the snapshot logic, which comes first after the frame was
\* read and analysed; a compliance log is written only by the logging block,
\* which follows it; alerts are checked, sent and recorded only after the
\* logging block, for every violating frame.
StepInOrder(p, after_encode) ==
    /\ pc'[p] # pc[p] =>
          /\ pc[p] = "read" => pc'[p] \in {"analyze", "done", "aborted"}
          /\ pc[p] = "analyze" => pc'[p] = "snapshot"
          /\ pc[p] = "snapshot" => pc'[p] \in {"capture", "log"}
          /\ pc[p] = "capture" => pc'[p] = "log"
          /\ pc[p] = "log" =>
                pc'[p] = (IF ViolationsCount(detections[p]) > 0
                          THEN "check" ELSE "encode")
          /\ pc[p] = "check" => pc'[p] \in {"format", "encode"}
          /\ pc[p] = "format" => pc'[p] = "send"
          /\ pc[p] = "send" => pc'[p] = "record"
          /\ pc[p] = "record" => pc'[p] = "store"
          /\ pc[p] = "store" => pc'[p] \in {"check", "encode"}
          /\ pc[p] = "encode" => pc'[p] \in after_encode
          /\ pc[p] = "yield" => pc'[p] = "read"
    /\ detections'[p] # detections[p] => pc[p] \in {"read", "encode", "yield"}
    /\ metrics'[p] # metrics[p] => pc[p] \in {"analyze", "encode", "yield"}
    /\ (ncap'[p] # ncap[p] \/ captured'[p] # captured[p])
          => pc[p] \in {"capture", "encode", "yield"}
    /\ (log_call'[p] # log_call[p] \/ last_log_time'[p] # last_log_time[p])
          => pc[p] \in {"enter", "log", "encode", "yield"}
    /\ nsent'[p] # nsent[p] => pc[p] = "send"
    /\ (pc[p] \in {"check", "format", "send", "record", "store"} /\ idx'[p] # idx[p])
          => idx'[p] \in {idx[p] + 1, 1}

\* C24 (as claimed): the steps of an iteration come in the order analysis,
\* snapshot logic (with the capture when it fires), logging block, alert
\* loop, yield of the frame, and the next frame is read only after the
\* yield.
C24_ReadOnlyAfterYield ==
    [][\A p \in Pipelines : StepInOrder(p, {"yield"})]_vars

\* C24 (amended): the steps of an iteration come in the order analysis,
\* snapshot logic (with the capture when it fires), logging block, alert
\* loop, JPEG encoding, and the yield of the frame if it could be encoded;
\* the next frame is read only after all of them, a frame that could not be
\* encoded being dropped without a yield.
C24_StepsInOrder ==
    [][\A p \in Pipelines : StepInOrder(p, {"yield", "read"})]_vars

\* a frame about to be yielded for which a capture was made, a compliance
\* log written with its two violation events and one alert sent
C24_Witness ==
    /\ pc[1] = "yield"
    /\ detections[1] = F_TWO_NO_HELMET
    /\ captured[1]
    /\ log_call[1].calls = 1
    /\ Len(log_call[1].events) = 2
    /\ sent_now[1] = <<NO_HELMET>>
    /\ sent[NO_HELMET].at = log_call[1].at

\* the current frame of p has been analysed
Analysed(p) ==
    pc[p] \in {"snapshot", "capture", "log", "check", "format", "send", "record", "store",
               "encode", "yield"}

\* positions in a detection list of the detections of class `name`
OfClass(dets, name) == {i \in DOMAIN dets : dets[i].class_name = name}

\* positions in a detection list of the detections whose class starts with 'no-'
Prefixed(dets) == {i \in DOMAIN dets : dets[i].class_name[1] = "no-"}

\* C25: for every detection list without a "person" entry and without an
\* entry whose class starts with "no-", the empty list included, the analysis
\* returns the status "No persons detected", a violation count of 0 and an
\* empty violation list.
C25_NothingToSee ==
    \A p \in Pipelines :
        (/\ Analysed(p)
         /\ OfClass(detections[p], PERSON) = {}
         /\ Prefixed(detections[p]) = {})
            => /\ metrics[p].status_message = <<"No persons detected">>
               /\ metrics[p].violations_count = 0
               /\ metrics[p].violation_details = <<>>

\* a list of worn PPE and another object, without a person
C25_Witness ==
    /\ Analysed(1)
    /\ Len(detections[1]) = 3
    /\ detections[1][1].class_name = HELMET
    /\ detections[1][2].class_name = BOOTS
    /\ detections[1][3].class_name = VEST
    /\ metrics[1].status_message = <<"No persons detected">>

\* the three kinds of status
IsViolationsDetected(status) ==
    Len(status) >= 2 /\ status[Len(status)] = " Violation(s) Detected"

IsNoPersonsDetected(status) == status = <<"No persons detected">>

IsCompliant(status) == status = <<"Compliant (Persons detected, no violations)">>

\* C26: the status returned by the analysis is the violations-detected one
\* (with the violation count in front) if the returned violation count is
\* above 0, else the no-persons one if the returned person count is 0, else
\* the compliant one; exactly one of the three applies.
C26_StatusByCounts ==
    \A p \in Pipelines :
        Analysed(p) =>
            LET m == metrics[p]
                st == m.status_message
            IN /\ IF m.violations_count > 0
                  THEN st = Str(m.violations_count) \o <<" Violation(s) Detected">>
                  ELSE IF m.person_count = 0
                       THEN IsNoPersonsDetected(st)
                       ELSE IsCompliant(st)
               /\ Cardinality({k \in 1..3 :
                      <<IsViolationsDetected(st), IsNoPersonsDetected(st),
                        IsCompliant(st)>>[k]}) = 1

\* violations without a person: the violations decide
C26_Witness ==
    /\ Analysed(1)
    /\ metrics[1].person_count = 0
    /\ metrics[1].violations_count = 2
    /\ metrics[1].status_message = <<"2", " Violation(s) Detected">>

\* C27: for every detection list the person count is the number of "person"
\* detections, the worn-PPE count the number of detections of class helmet,
\* vest or gloves, and the violation count both the number of detections
\* whose class starts with "no-" and the length of the violation list, whose
\* k-th event has the class name, box and confidence of the k-th such
\* detection.
C27_CountsAndEvents ==
    \A p \in Pipelines :
        Analysed(p) =>
            LET dets == detections[p]
                m == metrics[p]
                viol == Prefixed(dets)
                At(k) == CHOOSE i \in viol : Cardinality({j \in viol : j <= i}) = k
            IN /\ m.person_count = Cardinality(OfClass(dets, PERSON))
               /\ m.ppe_worn_count =
                     Cardinality(OfClass(dets, HELMET) \cup OfClass(dets, VEST)
                                 \cup OfClass(dets, GLOVES))
               /\ m.violations_count = Cardinality(viol)
               /\ m.violations_count = Len(m.violation_details)
               /\ \A k \in DOMAIN m.violation_details :
                     /\ m.violation_details[k].violation_type = dets[At(k)].class_name
                     /\ m.violation_details[k].location_box = dets[At(k)].box
                     /\ m.violation_details[k].confidence = dets[At(k)].confidence

\* a person, a helmet, and two violations around another object
C27_Witness ==
    /\ Analysed(1)
    /\ Len(detections[1]) = 4
    /\ metrics[1].person_count = 1
    /\ metrics[1].ppe_worn_count = 1
    /\ metrics[1].violations_count = 2
    /\ metrics[1].violation_details[1].location_box = 1
    /\ metrics[1].violation_details[2].location_box = 4
    /\ metrics[1].violation_details[2].violation_type = NO_GLOVES

\* C28: the event of a "no-helmet" detection has a severity strictly above
\* that of the event of a violation whose type has no 'helmet' in it, such
\* as "no-gloves".
C28_HelmetIsMoreSevere ==
    \A p \in Pipelines :
        Analysed(p) =>
            \A i, j \in DOMAIN metrics[p].violation_details :
                LET a == metrics[p].violation_details[i]
                    b == metrics[p].violation_details[j]
                IN (/\ a.violation_type = NO_HELMET
                    /\ \A k \in DOMAIN b.violation_type : b.violation_type[k] # "helmet")
                      => a.severity > b.severity

\* a frame with a "no-gloves" and a "no-helmet" detection
C28_Witness ==
    /\ Analysed(1)
    /\ Len(metrics[1].violation_details) = 2
    /\ metrics[1].violation_details[1].violation_type = NO_GLOVES
    /\ metrics[1].violation_details[2].violation_type = NO_HELMET
    /\ metrics[1].violation_details[2].severity > metrics[1].violation_details[1].severity

\* C29 (as claimed): the event of a violation whose type has no 'helmet' in
\* it has severity 1.
C29_DefaultSeverityOne ==
    \A p \in Pipelines :
        Analysed(p) =>
            \A k \in DOMAIN metrics[p].violation_details :
                LET e == metrics[p].violation_details[k]
                IN (\A i \in DOMAIN e.violation_type : e.violation_type[i] # "helmet")
                      => e.severity = 1

\* C29 (amended): the event of a violation whose type has no 'helmet' in it
\* has severity 2.
C29_DefaultSeverityTwo ==
    \A p \in Pipelines :
        Analysed(p) =>
            \A k \in DOMAIN metrics[p].violation_details :
                LET e == metrics[p].violation_details[k]
                IN (\A i \in DOMAIN e.violation_type : e.violation_type[i] # "helmet")
                      => e.severity = 2

\* a frame with one "no-gloves" detection
C29_Witness ==
    /\ Analysed(1)
    /\ Len(metrics[1].violation_details) = 1
    /\ metrics[1].violation_details[1].violation_type = NO_GLOVES
    /\ metrics[1].violation_details[1].severity = 2

\* what the analysis of a detection list has to return, counted from the
\* list alone: the persons, the worn PPE, the detections whose class starts
\* with "no-" and, in their order, one event for each of these
Recounted(dets) ==
    LET viol == Prefixed(dets)
        At(k) == CHOOSE i \in viol : Cardinality({j \in viol : j <= i}) = k
        persons == Cardinality(OfClass(dets, PERSON))
    IN [person_count     |-> persons,
        ppe_worn_count   |-> Cardinality(OfClass(dets, HELMET) \cup OfClass(dets, VEST)
                                         \cup OfClass(dets, GLOVES)),
        violations_count |-> Cardinality(viol),
        status_message   |->
            IF viol # {} THEN Str(Cardinality(viol)) \o <<" Violation(s) Detected">>
            ELSE IF persons = 0 THEN <<"No persons detected">>
            ELSE <<"Compliant (Persons detected, no violations)">>,
        violation_details |->
            [k \in 1..Cardinality(viol) |->
                [violation_type |-> dets[At(k)].class_name,
                 location_box   |-> dets[At(k)].box,
                 confidence     |-> dets[At(k)].confidence,
                 severity       |-> IF dets[At(k)].class_name = NO_HELMET THEN 3 ELSE 2]]]

\* C30: the analysis is pure: the step in which the analysis of a run's frame
\* is made binds the results of that run and leaves everything else as it
\* was: the consecutive-violation counter, the window start of every run,
\* the alert cooldown table, the cached stream handle and the streams, and
\* the detection list it was given; what it returns is determined by that
\* list alone, so two analyses of the same list, made in whatever state,
\* return the same result.
C30_AnalyzeIsPure ==
    [][/\ \A p \in Pipelines :
             (pc[p] = "analyze" /\ pc'[p] # "analyze") =>
                /\ pc'[p] = "snapshot"
                /\ counter' = counter
                /\ last_log_time' = last_log_time
                /\ last_alert_time' = last_alert_time
                /\ cached' = cached
                /\ open_handles' = open_handles
                /\ stream' = stream
                /\ detections' = detections
                /\ snapshot_path' = snapshot_path
                /\ \A q \in Pipelines \ {p} : metrics'[q] = metrics[q] /\ pc'[q] = pc[q]
                /\ metrics'[p] = Recounted(detections[p])
       /\ \A p, q \in Pipelines :
             (/\ Analysed(p)' /\ Analysed(q)'
              /\ detections'[p] = detections'[q])
                => metrics'[p] = metrics'[q]
      ]_vars

\* a list with a person and a violation, analysed by one run, and by the
\* other after the first has counted the violating frame, sent its alert and
\* recorded it
C30_Witness ==
    /\ pc[1] = "yield"
    /\ pc[2] = "snapshot"
    /\ detections[1] = detections[2]
    /\ metrics[1].person_count = 1
    /\ metrics[1].violations_count = 1
    /\ metrics[1] = metrics[2]
    /\ counter = 1
    /\ DOMAIN last_alert_time # {}

\* C31 (as claimed): an entry of last_alert_time is changed only by
\* record_alert_sent for its own type, after a send_sms call for that type,
\* and becomes the time record_alert_sent read; every other entry keeps its
\* value, no entry is removed and no entry decreases, whatever runs there are
\* in the process.
C31_OwnEntryOnly ==
    [][\A t \in DOMAIN last_alert_time \cup DOMAIN last_alert_time' :
          LET was == IF t \in DOMAIN last_alert_time THEN last_alert_time[t] ELSE 0
          IN /\ t \in DOMAIN last_alert_time'
             /\ last_alert_time'[t] >= was
             /\ last_alert_time'[t] # was =>
                   \E p \in Pipelines :
                      /\ pc[p] = "store" /\ pc'[p] # "store"
                      /\ metrics[p].violation_details[idx[p]].violation_type = t
                      /\ sent_now[p][Len(sent_now[p])] = t
                      /\ last_alert_time'[t] = stamp[p]
      ]_vars

\* C32 (as claimed): the snapshot path written with a compliance log is what
\* a capture made since the run's previous compliance log returned; a log
\* whose window saw no capture is written with no snapshot path.
C32_PathOfThisWindow ==
    \A p \in Pipelines :
        (Logged(p) /\ log_call[p].calls > 0) =>
            /\ window_captures[p] = <<>> => log_call[p].frame_snapshot_path = NoPath
            /\ log_call[p].frame_snapshot_path # NoPath =>
                  \E i \in DOMAIN window_captures[p] :
                      window_captures[p][i] = log_call[p].frame_snapshot_path

\* C33: every save_violation_event call is made with the id that the
\* save_compliance_log call of the same logging block returned; when that
\* call returned None, or the frame has no violation, no violation event is
\* written in the block.
C33_EventsBelongToTheirLog ==
    \A p \in Pipelines :
        (Logged(p) /\ log_call[p].calls > 0) =>
            /\ \A k \in DOMAIN log_call[p].events :
                  /\ log_call[p].events[k].log_id = log_call[p].log_id
                  /\ log_call[p].events[k].log_id # "None"
            /\ (log_call[p].log_id = "None" \/ log_call[p].violations_count = 0)
                  => /\ log_call[p].events = <<>>
                     /\ event_ids[p] = NoEvents

\* a compliance log that failed at a frame with two violations
C33_Witness ==
    /\ Logged(1)
    /\ log_call[1].calls > 0
    /\ log_call[1].log_id = "None"
    /\ log_call[1].violations_count = 2
    /\ log_call[1].events = <<>>

\* C34: whatever the frames, for every threshold of 1 or more the
\* consecutive-violation counter is at least 0 and below the threshold before
\* and after the snapshot logic of every frame, and as long as snapshot
\* saving is disabled it is 0 and no capture is made.
C34_CounterBelowThreshold ==
    /\ counter >= 0
    /\ (\A p \in Pipelines : pc[p] # "capture")
          => counter < config.SNAPSHOT_CONSECUTIVE_VIOLATIONS
    /\ ~config.SAVE_VIOLATION_SNAPSHOT =>
          /\ counter = 0
          /\ \A p \in Pipelines : ncap[p] = 0 /\ ~captured[p]

\* with a threshold of 3, the counter one below the threshold again after a
\* capture
C34_Witness ==
    /\ InFrame(1)
    /\ config.SAVE_VIOLATION_SNAPSHOT
    /\ config.SNAPSHOT_CONSECUTIVE_VIOLATIONS = 3
    /\ ncap[1] = 1
    /\ counter = 2

\* the VideoStream cached by the module of run p
CachedStream(p) == IF Cache(p).handle = NoHandle THEN NoSource ELSE stream[Cache(p).handle]

\* the VideoStreams that hold an open capture: a camera or a video file
OpenCaptures == {h \in open_handles : stream[h].kind # "image"}

\* C35: after any sequence of get_video_stream calls of app/routes.py, made
\* one after the other, the cached stream is None exactly when the cached
\* source is None; a cached stream is open (an image: loaded) and was opened
\* for the cached source; no capture but the cached one is open; a call for
\* the cached source returns the cached stream and opens nothing; a call for
\* another source releases the cached stream, then makes and opens a new one,
\* which it caches and returns once open() has found it open, or clears the
\* cache when the open fails; at no point of a call is more than one capture
\* open.
C35_OneCachedStream ==
    [][\A p \in Pipelines :
          module[p] = ROUTES =>
             /\ ((\A q \in Pipelines :
                     pc[q] \notin {"release", "construct", "open", "opening", "made",
                                   "opened", "failed"}) =>
                   /\ Cache(p).handle = NoHandle <=> Cache(p).source = NoSource
                   /\ Cache(p).handle # NoHandle =>
                         /\ Cache(p).handle \in open_handles
                         /\ CachedStream(p).kind = Cache(p).source.kind
                   /\ OpenCaptures \subseteq {Cache(p).handle})'
             /\ Cardinality(OpenCaptures') <= 1
             /\ (pc[p] = "start" /\ pc'[p] # "start") =>
                   IF Hit(p)
                   THEN /\ handle'[p] = Cache(p).handle
                        /\ UNCHANGED <<cached, open_handles, nhandles, stream>>
                   ELSE /\ pc'[p] = "release"
                        /\ UNCHANGED <<cached, open_handles, nhandles, stream>>
             /\ (pc[p] = "release" /\ pc'[p] # "release") =>
                   /\ pc'[p] = "construct"
                   /\ OpenCaptures' = {}
                   /\ open_handles \ open_handles' \subseteq {Cache(p).handle}
                   /\ UNCHANGED <<cached, nhandles, stream>>
             /\ (pc[p] = "construct" /\ pc'[p] # "construct") =>
                   /\ pc'[p] = "open"
                   /\ nhandles' = nhandles + 1
                   /\ stream'[nhandles'] = source[p]
                   /\ Cache(p)' = [handle |-> nhandles', source |-> Cache(p).source]
                   /\ OpenCaptures' = {}
             /\ (pc[p] = "open" /\ pc'[p] # "open") =>
                   /\ pc'[p] = "opening"
                   /\ UNCHANGED <<cached, open_handles, nhandles, stream>>
             /\ (pc[p] = "opening" /\ pc'[p] # "opening") =>
                   /\ pc'[p] \in {"made", "failed"}
                   /\ open_handles' \ open_handles \subseteq {nhandles}
                   /\ OpenCaptures' \subseteq {nhandles}
                   /\ pc'[p] = "failed" => nhandles \notin open_handles'
                   /\ UNCHANGED <<cached, nhandles, stream>>
             /\ (pc[p] = "made" /\ pc'[p] # "made") =>
                   /\ pc'[p] = (IF nhandles \in open_handles THEN "opened" ELSE "failed")
                   /\ UNCHANGED <<cached, open_handles, nhandles, stream>>
             /\ (pc[p] = "opened" /\ pc'[p] # "opened") =>
                   /\ pc'[p] = "return"
                   /\ Cache(p)' = [handle |-> nhandles, source |-> source[p]]
                   /\ nhandles \in open_handles'
                   /\ UNCHANGED <<open_handles, nhandles, stream>>
             /\ (pc[p] = "failed" /\ pc'[p] # "failed") =>
                   /\ pc'[p] = "blank"
                   /\ Cache(p)' = NoCache
                   /\ OpenCaptures' = {}
                   /\ UNCHANGED <<open_handles, nhandles, stream>>
             /\ (pc[p] = "return" /\ pc'[p] # "return") =>
                   /\ handle'[p] = Cache(p).handle
                   /\ UNCHANGED <<cached, nhandles, stream>>
      ]_vars

\* the third stream was opened, for a source other than the one cached, and
\* is the only one open
C35_Witness ==
    /\ nhandles = 3
    /\ module[1] = ROUTES
    /\ Cache(1) = [handle |-> 3, source |-> Camera1]
    /\ open_handles = {3}
    /\ handle[1] = 3

\* C36: the cached stream is neither released nor cleared when a run ends:
\* the step by which a run ends for want of a frame, and the next call of
\* generate_frames, leave the cache and the open stream as they are, and a
\* call for the source of an exhausted cached stream gets that stream, still
\* exhausted, no new one being opened.
C36_ExhaustedStreamIsReused ==
    [][\A p \in Pipelines :
          module[p] = ROUTES =>
             /\ (pc[p] = "read" /\ pc'[p] = "done") =>
                   /\ UNCHANGED <<cached, open_handles, stream>>
                   /\ Cache(p).handle = handle[p]
             /\ (pc[p] = "done" /\ pc'[p] = "start") =>
                   UNCHANGED <<cached, open_handles, stream>>
             /\ (/\ pc[p] = "start" /\ pc'[p] # "start"
                 /\ source[p] = Cache(p).source
                 /\ CachedStream(p).kind = "file" /\ CachedStream(p).frames = <<>>) =>
                   /\ handle'[p] = Cache(p).handle
                   /\ handle'[p] \in open_handles'
                   /\ nhandles' = nhandles
                   /\ stream' = stream
                   /\ pc'[p] \in {"enter", "done"}
      ]_vars

\* a second run on the file has ended without a frame: it read from the
\* stream the first run had exhausted after its alert
C36_Witness ==
    /\ pc[1] = "done"
    /\ source[1].kind = "file"
    /\ module[1] = ROUTES
    /\ handle[1] = 1
    /\ nhandles = 1
    /\ StreamOf(1).frames = <<>>
    /\ nsent[1] = 0
    /\ NO_HELMET \in DOMAIN sent

\* C37: an Exception raised in the loop, by the detector or by any later
\* statement of the iteration, does not leave the generator: the run ends
\* there as a generator that returned, the step that ends it has no side
\* effect, and the run takes no step afterwards: no detection, capture,
\* compliance log, violation event or alert.
C37_ExceptionsEndTheRunQuietly ==
    [][\A p \in Pipelines :
          /\ pc'[p] \in {"off", "start", "release", "construct", "open", "opening",
                         "made", "opened", "return", "enter", "read", "analyze",
                         "snapshot", "capture", "log", "check", "format", "send", "record",
                         "store", "encode", "yield", "done", "aborted"}
          /\ (pc[p] # "aborted" /\ pc'[p] = "aborted") =>
                UNCHANGED <<counter, last_alert_time, sent, detections, metrics, ncap,
                            log_call, event_ids, nsent, last_log_time, snapshot_path>>
          /\ pc[p] = "aborted" =>
                /\ pc'[p] = "aborted"
                /\ UNCHANGED <<counter, last_alert_time, sent, detections, metrics, ncap,
                               log_call, event_ids, nsent, last_log_time, snapshot_path>>
      ]_vars

\* a run ended by the exception of a compliance log that was due, at a
\* violating frame, before any alert
C37_Witness ==
    /\ pc[1] = "aborted"
    /\ metrics[1].violations_count = 1
    /\ now - last_log_time[1] >= LOG_INTERVAL_SECONDS
    /\ log_call[1].calls = 0
    /\ nsent[1] = 0
    /\ counter = 1

\* C38: a call of generate_frames, of app/routes.py or of its copy in
\* app/detection/detector.py, whose stream cannot be opened yields one blank
\* frame, the only way to a blank frame, and ends when it is resumed; a call
\* that finds no detector ends from its start, its stream opened (and its
\* capture released again by the copy), without a frame; neither call detects,
\* captures, logs, records an event or sends, and both leave the streak
\* counter and the cooldown table as they were.
C38_FailedStartIsQuiet ==
    [][\A p \in Pipelines :
          /\ (pc[p] # "blank" /\ pc'[p] = "blank") =>
                /\ pc[p] = "failed"
                /\ nhandles \notin open_handles'
                /\ Cache(p)' = NoCache
                /\ handle'[p] = NoHandle
          /\ pc[p] = "blank" => pc'[p] \in {"blank", "done"}
          /\ (pc[p] \in {"start", "return"} /\ pc'[p] = "done") =>
                /\ handle'[p] = Cache(p).handle
                /\ module[p] = ROUTES => handle'[p] \in open_handles'
                /\ module[p] = DETECTOR => handle'[p] \notin OpenCaptures'
          /\ (pc[p] \in {"start", "release", "construct", "open", "opening", "made",
                        "opened", "failed", "return", "blank"}
                 /\ pc'[p] \in {"blank", "done"}) =>
                /\ UNCHANGED <<counter, last_alert_time, sent>>
                /\ detections'[p] = <<>>
                /\ metrics'[p] = NoMetrics
                /\ ncap'[p] = 0
                /\ log_call'[p] = NoCall
                /\ event_ids'[p] = NoEvents
                /\ nsent'[p] = 0
      ]_vars

\* a call that ended after its blank frame, made after a run that had
\* counted a violating frame and sent an alert
C38_Witness ==
    /\ pc[1] = "done"
    /\ handle[1] = NoHandle
    /\ Cache(1) = NoCache
    /\ nhandles = 2
    /\ counter = 1
    /\ LastAlert(NO_HELMET) = StartTime

\* a send for type t was attempted less than a cooldown ago
RecentlySent(t) ==
    /\ t \in DOMAIN sent
    /\ now - sent[t].at < ALERT_COOLDOWN_SECONDS

\* run p comes to read a frame with the cooldown of type t expired
ReadsExpired(p, t) ==
    /\ pc[p] = "read"
    /\ ncap[p] < MaxCaptures
    /\ now - LastAlert(t) >= ALERT_COOLDOWN_SECONDS

\* C39: while every frame shows a missing helmet, each time the run comes to
\* read a frame with the cooldown of that type expired, a send for the type
\* is attempted, at that time or later; so sends recur, one after every
\* expiry, as long as time advances. And when the alert loop of a frame is
\* over, every violation type of the frame has a send attempted less than a
\* cooldown ago, and the table holds its time: a type never sent before,
\* whose entry reads as the epoch, was sent in the first frame that showed it.
C39_AlertsRecur ==
    /\ (ReadsExpired(1, NO_HELMET) ~> RecentlySent(NO_HELMET))
    /\ [](\A p \in Pipelines :
            pc[p] = "yield" =>
                \A t \in FrameTypes(p) :
                    /\ RecentlySent(t)
                    /\ LastAlert(t) = sent[t].at)

\* the third send for a missing helmet, two cooldowns after the first, which
\* was made at the start; a missing vest first seen and sent a cooldown
\* after the start
C39_Witness ==
    /\ pc[1] = "yield"
    /\ sent[NO_HELMET].n = 3
    /\ sent[NO_HELMET].at = StartTime + 2 * ALERT_COOLDOWN_SECONDS
    /\ NO_VEST \in DOMAIN sent
    /\ sent[NO_VEST].n = 1
    /\ sent[NO_VEST].at = StartTime + ALERT_COOLDOWN_SECONDS

\* C40 (as claimed): a run ends for want of a frame only on a source that
\* comes to return none, which a static image never does: each read of a run
\* on an image gives the image again, the stream being left as it was, and
\* the loop goes on to process it (or an exception ends the run).
C40_ImageNeverRunsOut ==
    [][\A p \in Pipelines :
          /\ (pc[p] = "read" /\ pc'[p] = "done") => source[p].kind # "image"
          /\ (pc[p] = "read" /\ source[p].kind = "image") =>
                /\ pc'[p] \in {"read", "analyze", "aborted"}
                /\ StreamOf(p)' = source[p]
                /\ pc'[p] = "analyze" => detections'[p] = source[p].frames[1]
      ]_vars

\* the run on the image of a missing helmet has read it seven times: one
\* capture after five reads and two reads since
ImageReadAgain ==
    /\ source[1] = Image(F_NO_HELMET)
    /\ pc[1] = "read"
    /\ ncap[1] = 1
    /\ counter = 2

\* a run of the copy in app/detection/detector.py takes no snapshot, sends no
\* alert, leaves the streak counter, the cooldown table and the stream cache of
\* app/routes.py as they were, and writes its compliance logs without a
\* snapshot path
CopyIsQuiet ==
    \A p \in Pipelines :
        module[p] = DETECTOR =>
            /\ ncap[p] = 0 /\ ~captured[p]
            /\ nsent[p] = 0
            /\ counter = 0
            /\ last_alert_time = <<>>
            /\ cached[ROUTES] = NoCache
            /\ log_call[p].frame_snapshot_path = NoPath
            /\ prev_log[p].frame_snapshot_path = NoPath
            /\ pc[p] \notin {"snapshot", "capture", "check", "format", "send", "record",
                           "store"}

\* a run has released the cached stream of an image, which another run goes
\* on reading
ImageReleased ==
    \E p, q \in Pipelines :
        /\ pc[p] = "construct" /\ pc[q] = "yield"
        /\ StreamOf(q).kind = "image"
        /\ handle[q] \in open_handles
        /\ module[p] = module[q]

\* release() of the stream of an image leaves it delivering
ImageStaysLoaded ==
    [][\A h \in open_handles : stream[h].kind = "image" => h \in open_handles']_vars

\* a read of an image that another run is loading has ended the run
ReadWhileLoading ==
    \E p, q \in Pipelines :
        /\ pc[p] = "aborted" /\ pc[q] = "opening"
        /\ opening[q] = handle[p]
        /\ stream[handle[p]].kind = "image"
        /\ ncap[p] = 0

\* a read of an image whose loading had raised, by a run that took the stream
\* from the cache before the cache was cleared, has ended the run
ReadAfterLoadRaised ==
    \E p, q \in Pipelines :
        /\ pc[p] = "aborted" /\ pc[q] = "done"
        /\ handle[p] \in unloaded
        /\ handle[q] = NoHandle
        /\ Cache(p) = NoCache

\* a run has taken the cached stream and read a frame from it after another
\* run had found the cache to miss and before that run's release() of the
\* stream has run
ReadBeforeRelease ==
    \E p, q \in Pipelines :
        /\ pc[p] = "release" /\ releasing[p] = handle[q]
        /\ pc[q] = "analyze"
        /\ handle[q] \in open_handles

\* the copy has read the six frames, written five compliance logs, the last
\* one for the frame without detections, and ended; its stream is still open
\* and cached
CopyRan ==
    /\ module[1] = DETECTOR
    /\ pc[1] = "done"
    /\ StreamOf(1).frames = <<>>
    /\ now = StartTime + CopyHorizon
    /\ prev_log[1].calls = 1
    /\ cached[DETECTOR].handle = 1
    /\ open_handles = {1}

====
